---- MODULE Spec2Model ----
(***************************************************************************)
(* A model of The-Checker-Mater: the move engine of src/game (board.rs,    *)
(* mod.rs), the wire codec, the transaction table and outgoing queue, the  *)
(* connection status and the host and client network loops of src/net/p2p. *)
(*                                                                         *)
(* The module holds several specifications over one set of variables:      *)
(*   SpecBoard   the move engine, applied to bounded boards                *)
(*   SpecCodec   the wire codec, applied to bounded packet values          *)
(*   SpecClient  the tasks of a joined client and its application thread   *)
(*   SpecPing    the ping task of a joined client through its retry budget *)
(*   SpecHost    the tasks of a host and its application thread            *)
(*   SpecEvict   the receive task of a host with its inactivity timer      *)
(*   SpecJoin    a client joining a host, then pinging it                  *)
(*   SpecPiece   the packing of one piece into its byte                    *)
(*   SpecDecode  the receive task on datagrams that are no frame           *)
(*   SpecSend    a joined client whose sends can fail                      *)
(*   SpecLossy   a joined client and its host over a link that loses       *)
(*               datagrams, with fairness                                  *)
(*   SpecInbound a peer that receives requests and takes the game actions  *)
(*   SpecTwice   a joined client and its host over a transport that may    *)
(*               deliver a datagram twice                                  *)
(*   SpecStray   the receive task of a client with and without a peer      *)
(*               address                                                   *)
(* Each specification leaves the variables of the other parts at their     *)
(* initial values.                                                         *)
(***************************************************************************)
EXTENDS Integers, Sequences, FiniteSets, TLC

VARIABLES
    pieces,        \* Board.pieces: the 32 PieceData slots
    player_color,  \* Board.player_color
    legal,         \* the value last returned by get_legal_moves / get_legal_moves_piece,
                   \* the move last applied by move_piece, or the colour last given to
                   \* start_new_game
    value,         \* the P2pPacket handed to to_packet
    bytes,         \* the datagram to_packet made of it
    decoded,       \* what from_packet made of the datagram
    status,        \* CONNECTION_DATA.status
    other_addr,    \* CONNECTION_DATA.other_addr
    session_id,    \* CONNECTION_DATA.session_id
    join_code,     \* CONNECTION_DATA.join_code
    table,         \* TRANSACTION_TABLE
    outq,          \* OUTGOING_QUEUE
    incoming,      \* INCOMING_ACTIONS
    next_action,   \* what get_next_game_action returned last
    ping,          \* the ping task of the client loop
    app,           \* the application thread inside send_game_action
    elapsed,       \* time_since_ping.elapsed() of the host, in receive timeouts
    budget,        \* pings, game actions and datagrams still to come
    called,        \* per send_game_action call: its transaction id, how often its callback ran
    pushes,        \* number of push_back calls on the outgoing queue
    sent_count,    \* number of datagrams the outgoing task transmitted
    last_sent,     \* the last of them and the address it went to
    last_pop,      \* what the last pop_outgoing_queue returned, and the queue length before
    timeouts,      \* ping timeouts since the last answered ping
    peer_silent,   \* receive timeouts since the last datagram of the bound peer
    evicted_at,    \* peer_silent when the host last removed its peer, or -1
    handled,       \* the datagram the receive task handled last and its answer, or
                   \* that it dropped a datagram or panicked
    join,          \* the application thread inside connect_to_host_loop
    host,          \* the session state of the host a joining client talks to
    wire,          \* the response of that host in flight to the client
    flight,        \* the request in flight to the peer
    sender         \* the outgoing task: "running", or "ended" by a panic

board_vars == <<pieces, player_color, legal>>

codec_vars == <<value, bytes, decoded>>

status_vars == <<status, other_addr, session_id, join_code>>

host_vars == <<elapsed, peer_silent, evicted_at, handled, incoming, next_action>>

link_vars == <<flight, sender>>

join_vars == <<join, host, wire, link_vars>>

net_vars ==
    <<status_vars, table, outq, pushes, called, sent_count, last_sent, last_pop, ping, app,
      budget, timeouts, host_vars, join_vars>>

vars == <<board_vars, codec_vars, net_vars>>

(***************************************************************************)
(* Bounds of the model.                                                    *)
(***************************************************************************)
\* other pieces placed around the focus piece of a constructed board
MaxOthers == 2

\* enemy men placed along the path of a capture chain of a constructed board
MaxChain == 3

\* new_transaction_id returns one of the MaxDraw smallest ids absent from the table
\* (one of the PingDraw smallest in SpecPing, where the table grows with every timeout)
MaxDraw == 2

PingDraw == 1

\* the transaction ids of the datagrams the transport delivers are 0 .. MaxRespId
MaxRespId == 1

\* pings started in a run (SpecPing adds the retry budget), game actions sent,
\* datagrams received
MaxPings == 2

MaxActions == 1

\* Connect requests a client sends in a run
MaxJoins == 2

\* the round-trip times a ping can measure are 1 .. MaxRtt
MaxRtt == 1

MaxRecv == 2

(***************************************************************************)
(* src/game/mod.rs: colours, pieces, moves, directions.                    *)
(***************************************************************************)
PieceColors == {"White", "Black"}

get_opposite(c) == IF c = "White" THEN "Black" ELSE "White"

const_default == [is_king |-> FALSE, is_active |-> FALSE, color |-> "White"]

\* the number of slots of the board (pieces.len(), row_count())
BoardLen == 32

Squares == 0 .. (BoardLen - 1)

\* Move.captured is an Option<Vec<usize>>
CapturedNone == [some |-> FALSE, list |-> <<>>]

CapturedSome(l) == [some |-> TRUE, list |-> l]

Move(i, e, c, p) == [index |-> i, end |-> e, captured |-> c, promoted |-> p]

\* Move::reverse: the squares of a move seen from the other side of the board
reverse(m) ==
    Move(31 - m.index, 31 - m.end,
         IF m.captured.some
         THEN CapturedSome([k \in 1 .. Len(m.captured.list) |-> 31 - m.captured.list[k]])
         ELSE CapturedNone,
         m.promoted)

Direction_values == <<"UpRight", "UpLeft", "DownLeft", "DownRight">>

Direction_discriminant(d) ==
    CASE d = "UpLeft" -> -5
      [] d = "UpRight" -> -4
      [] d = "DownLeft" -> 3
      [] d = "DownRight" -> 4

\* the offset of a direction without the shift of the odd rows
get_value_unshifted(d, index) == Direction_discriminant(d)

\* Direction::get_value
get_value(d, index) == Direction_discriminant(d) + ((index % 8) \div 4)

is_left(d) == d \in {"UpLeft", "DownLeft"}

is_right(d) == d \in {"UpRight", "DownRight"}

\* a test that takes DownRight alone for a downward direction
is_down_right_only(d) == d = "DownRight"

\* Direction::is_down
is_down(d) == d \in {"DownRight", "DownLeft"}

is_up(d) == d \in {"UpRight", "UpLeft"}

(***************************************************************************)
(* src/game/board.rs: the values check_move and the two queries return.    *)
(* `panic` is an out-of-bounds index or a failed assert, `ub` a use of     *)
(* unwrap_unchecked on None.                                               *)
(***************************************************************************)
NoMoves == [some |-> FALSE, moves |-> <<>>, taking |-> FALSE, panic |-> FALSE, ub |-> FALSE]

PanicMoves == [NoMoves EXCEPT !.panic = TRUE]

UbMoves == [NoMoves EXCEPT !.ub = TRUE]

SomeMoves(ms, t) == [some |-> TRUE, moves |-> ms, taking |-> t, panic |-> FALSE, ub |-> FALSE]

\* moves.iter().filter_map(|mov| mov.captured.as_ref().map(|_| mov.clone()))
OnlyCapturing(ms) == SelectSeq(ms, LAMBDA m : m.captured.some)

\* a pass that leaves the continuations as they are
AppendFurther_as_is(acc, r, index, promoting) ==
    IF acc.panic \/ r.panic THEN PanicMoves
    ELSE IF acc.ub \/ r.ub THEN UbMoves
    ELSE IF ~(r.some /\ r.taking) THEN acc
    ELSE SomeMoves(acc.moves \o r.moves, TRUE)

\* a pass that drops the continuations
AppendFurther_dropped(acc, r, index, promoting) ==
    IF acc.panic \/ r.panic THEN PanicMoves
    ELSE IF acc.ub \/ r.ub THEN UbMoves
    ELSE acc

\* one pass of the loop that gathers the continuations of a capture
AppendFurther(acc, r, index, promoting) ==
    IF acc.panic \/ r.panic THEN PanicMoves
    ELSE IF acc.ub \/ r.ub THEN UbMoves
    ELSE IF ~(r.some /\ r.taking) THEN acc
    ELSE IF \E i \in 1 .. Len(r.moves) : ~r.moves[i].captured.some THEN UbMoves
    ELSE SomeMoves(
            acc.moves \o
            [i \in 1 .. Len(r.moves) |->
                [r.moves[i] EXCEPT !.captured.list = Append(@, index),
                                   !.promoted = @ \/ promoting]],
            TRUE)

RECURSIVE check_move(_, _, _, _, _, _, _, _)
check_move(ps, start, index, local_player_color, enemy_color, is_king, direction, is_taking) ==
    LET row_left_shifted == index % 8 < 4
        piece_left_side == index % 4 = 0
        peice_right_side == index % 4 = 3
        is_local_player == local_player_color # enemy_color
        next == index + get_value(direction, index)
    IN
    IF row_left_shifted /\ is_left(direction) /\ piece_left_side THEN NoMoves
    ELSE IF ~row_left_shifted /\ is_right(direction) /\ peice_right_side THEN NoMoves
    ELSE IF ~is_king /\ is_down(direction) /\ is_local_player THEN NoMoves
    ELSE IF ~is_king /\ is_up(direction) /\ ~is_local_player THEN NoMoves
    ELSE IF next < 0 \/ next > BoardLen THEN NoMoves
    ELSE IF next >= BoardLen THEN PanicMoves
    ELSE IF ps[next].is_active THEN
        IF ps[next].color # enemy_color \/ is_taking THEN NoMoves
        ELSE
            LET next_move == check_move(ps, start, next, local_player_color, enemy_color,
                                        is_king, direction, TRUE)
            IN
            IF ~next_move.some \/ ~next_move.taking THEN next_move
            ELSE [next_move EXCEPT !.moves = OnlyCapturing(@)]
    ELSE
        LET promoting == (is_local_player /\ next < 4) \/ (~is_local_player /\ next > 32 - 4)
        IN
        IF is_taking THEN
            LET ps2 == [ps EXCEPT ![index] = const_default]
                cont(k) == check_move(ps2, start, next, local_player_color, enemy_color,
                                      is_king \/ promoting, Direction_values[k], FALSE)
                f1 == AppendFurther(NoMoves, cont(1), index, promoting)
                f2 == AppendFurther(f1, cont(2), index, promoting)
                f3 == AppendFurther(f2, cont(3), index, promoting)
                further_moves == AppendFurther(f3, cont(4), index, promoting)
            IN
            IF further_moves.panic \/ further_moves.ub THEN further_moves
            ELSE IF further_moves.some THEN SomeMoves(further_moves.moves, TRUE)
            ELSE SomeMoves(<<Move(start, next, CapturedSome(<<index>>), promoting)>>, TRUE)
        ELSE IF is_king THEN
            LET next_moves == check_move(ps, start, next, local_player_color, enemy_color,
                                         is_king, direction, FALSE)
                slid == IF next_moves.some THEN next_moves.moves ELSE <<>>
                taking == next_moves.some /\ next_moves.taking
            IN
            IF next_moves.panic \/ next_moves.ub THEN next_moves
            ELSE IF taking THEN SomeMoves(slid, TRUE)
            ELSE SomeMoves(Append(slid, Move(start, next, CapturedNone, promoting)), FALSE)
        ELSE SomeMoves(<<Move(start, next, CapturedNone, promoting)>>, FALSE)

\* the body shared by the loops of get_legal_moves_piece and get_legal_moves:
\* is_taking |= r.1; if r.1 == is_taking { moves.get_or_insert(vec![]).append(r.0) }
AppendIfTaking(acc, r) ==
    IF acc.panic \/ r.panic THEN PanicMoves
    ELSE IF acc.ub \/ r.ub THEN UbMoves
    ELSE IF ~r.some THEN acc
    ELSE LET is_taking == acc.taking \/ r.taking
         IN IF r.taking = is_taking
            THEN SomeMoves(acc.moves \o r.moves, is_taking)
            ELSE [acc EXCEPT !.taking = is_taking]

\* moves.map(|moves| if !is_taking { moves } else { the capturing ones })
FilterResult(acc) ==
    IF acc.panic \/ acc.ub THEN acc
    ELSE IF ~acc.some THEN NoMoves
    ELSE IF ~acc.taking THEN acc
    ELSE [acc EXCEPT !.moves = OnlyCapturing(@)]

get_legal_moves_piece(ps, pc, index) ==
    IF ~(index < BoardLen) THEN PanicMoves
    ELSE IF ~ps[index].is_active THEN NoMoves
    ELSE
        LET piece == ps[index]
            dir(k) == check_move(ps, index, index, pc, get_opposite(piece.color),
                                 piece.is_king, Direction_values[k], FALSE)
            a1 == AppendIfTaking(NoMoves, dir(1))
            a2 == AppendIfTaking(a1, dir(2))
            a3 == AppendIfTaking(a2, dir(3))
            a4 == AppendIfTaking(a3, dir(4))
        IN FilterResult(a4)

RECURSIVE LegalMovesFrom(_, _, _, _)
LegalMovesFrom(ps, pc, index, acc) ==
    IF index >= BoardLen THEN acc
    ELSE IF ps[index].color # pc THEN LegalMovesFrom(ps, pc, index + 1, acc)
    ELSE LET a == AppendIfTaking(acc, get_legal_moves_piece(ps, pc, index))
         IN IF a.panic \/ a.ub THEN a
            ELSE LegalMovesFrom(ps, pc, index + 1, a)

\* get_legal_moves with the closing filter of the capturing moves left out
get_legal_moves_unfiltered(ps, pc) == LegalMovesFrom(ps, pc, 0, NoMoves)

get_legal_moves(ps, pc) == FilterResult(LegalMovesFrom(ps, pc, 0, NoMoves))

\* Board::get_player_piece_count
get_player_piece_count(ps, pc) ==
    Cardinality({i \in 0 .. 31 : ps[i].color = pc /\ ps[i].is_active})

\* Board::get_enemy_piece_count
get_enemy_piece_count(ps, pc) ==
    Cardinality({i \in 0 .. 31 : ps[i].color # pc /\ ps[i].is_active})

RECURSIVE ClearCaptured(_, _, _)
ClearCaptured(ps, list, k) ==
    IF k > Len(list) THEN ps
    ELSE ClearCaptured([ps EXCEPT ![list[k]] = const_default], list, k + 1)

\* a move that leaves the captured pieces on the board
move_piece_keep_captured(ps, mov) ==
    LET start_data == [ps[mov.index] EXCEPT !.is_king = @ \/ mov.promoted]
    IN [[ps EXCEPT ![mov.end] = start_data] EXCEPT ![mov.index] = const_default]

\* a move that forgets the promotion
move_piece_unpromoted(ps, mov) ==
    LET moved == [[ps EXCEPT ![mov.end] = ps[mov.index]] EXCEPT ![mov.index] = const_default]
    IN IF mov.captured.some THEN ClearCaptured(moved, mov.captured.list, 1) ELSE moved

\* Board::move_piece
move_piece(ps, mov) ==
    LET start_data == [ps[mov.index] EXCEPT !.is_king = @ \/ mov.promoted]
        moved == [[ps EXCEPT ![mov.end] = start_data] EXCEPT ![mov.index] = const_default]
    IN IF mov.captured.some THEN ClearCaptured(moved, mov.captured.list, 1) ELSE moved

\* default_setup with the two sides laid out in one colour
default_setup_one_colour(color) ==
    [i \in Squares |->
        IF i < 12 THEN [is_king |-> FALSE, is_active |-> TRUE, color |-> color]
        ELSE IF i < 20 THEN const_default
        ELSE [is_king |-> FALSE, is_active |-> TRUE, color |-> color]]

\* Board::default_setup
default_setup(color) ==
    [i \in Squares |->
        IF i < 12 THEN [is_king |-> FALSE, is_active |-> TRUE, color |-> get_opposite(color)]
        ELSE IF i < 20 THEN const_default
        ELSE [is_king |-> FALSE, is_active |-> TRUE, color |-> color]]

(***************************************************************************)
(* src/net/status.rs: the sentinel session id of a Connect request.        *)
(***************************************************************************)
CONNECT_SESSION_ID == 5620

(***************************************************************************)
(* src/net/p2p/mod.rs: the wire codec.  A datagram is a sequence of bytes  *)
(* (numbers 0 .. 255); a string is the sequence of its bytes.  A decoder   *)
(* returns Ok(v), Err(reason) or panics.                                   *)
(***************************************************************************)
Ok(v) == [ok |-> TRUE, panic |-> FALSE, value |-> v]

Err(reason) == [ok |-> FALSE, panic |-> FALSE, err |-> reason]

Panic == [ok |-> FALSE, panic |-> TRUE]

\* u16::to_be_bytes and u16::from_be_bytes
to_be_bytes(x) == <<(x \div 256) % 256, x % 256>>

from_be_bytes(b) == b[1] * 256 + b[2]

\* x as u8
as_u8(x) == x % 256

\* packet[k..] of the source (k counted from 0)
Tail_from(packet, k) == SubSeq(packet, k + 1, Len(packet))

MapSeq(s, Op(_)) == [k \in 1 .. Len(s) |-> Op(s[k])]

\* String::from_utf8, for the one-byte characters the model uses
from_utf8(b) == IF \A k \in 1 .. Len(b) : b[k] < 128 THEN Ok(b) ELSE Err("DataError")

P2pRequest(session, transaction, payload) ==
    [type |-> "Request", session_id |-> session, transaction_id |-> transaction,
     packet |-> payload]

\* a response that carries the session id in the place of the transaction id
P2pResponse_own_id(session, transaction, payload) ==
    [type |-> "Response", session_id |-> session, transaction_id |-> session,
     packet |-> payload]

P2pResponse(session, transaction, payload) ==
    [type |-> "Response", session_id |-> session, transaction_id |-> transaction,
     packet |-> payload]

Ping == [kind |-> "Ping"]

ConnectRequest(code, name) == [kind |-> "Connect", join_code |-> code, username |-> name]

ResyncRequest == [kind |-> "Resync"]

GameActionRequest(a) == [kind |-> "GameAction", action |-> a]

Stalemate == [kind |-> "Stalemate"]

Surrender == [kind |-> "Surrender"]

\* GameAction::move_piece
GameAction_move_piece(index, end, captured, promoted) ==
    [kind |-> "MovePiece", mov |-> Move(index, end, captured, promoted)]

ErrorResponse(k) == [kind |-> "Error", err |-> k]

Pong == [kind |-> "Pong"]

ConnectResponse(color, name) ==
    [kind |-> "Connect", client_color |-> color, host_username |-> name]

ResyncResponse(b) == [kind |-> "Resync", board |-> b]

Acknowledge == [kind |-> "Acknowledge"]

\* the kinds of P2pError, numbered 0 .. 4 in this order by to_u8 and try_from
P2pErrors ==
    <<"InvalidBoard", "InvalidJoinCode", "InvalidSessionId", "FullGameSession",
      "WrongDirection">>

P2pError_to_u8(k) == (CHOOSE n \in 1 .. Len(P2pErrors) : P2pErrors[n] = k) - 1

P2pError_try_from(byte) ==
    IF byte < Len(P2pErrors) THEN Ok(P2pErrors[byte + 1]) ELSE Err("DataError")

PieceColor_to_u8(c) == IF c = "White" THEN 1 ELSE 2

PieceColor_try_from(byte) ==
    IF byte = 1 THEN Ok("White") ELSE IF byte = 2 THEN Ok("Black") ELSE Err("DataError")

\* value & (1 << n), as 0 or 1
Bit(byte, n) == (byte \div (2 ^ n)) % 2

\* ToByte for PieceData: 0 when the piece IS active, else the colour and king bits
PieceData_to_u8(p) ==
    IF p.is_active THEN 0
    ELSE (IF p.color = "White" THEN 1 ELSE 2) + (IF p.is_king THEN 4 ELSE 0)

\* TryFrom<u8> for PieceData: is_king compares (value & 0b100) with 1
PieceData_try_from(byte) ==
    IF byte = 0 THEN Ok([is_king |-> FALSE, is_active |-> FALSE, color |-> "White"])
    ELSE IF Bit(byte, 0) + Bit(byte, 1) # 1 THEN Err("wrong format")
    ELSE Ok([is_king |-> (4 * Bit(byte, 2) = 1), is_active |-> TRUE,
             color |-> IF Bit(byte, 0) = 1 THEN "White" ELSE "Black"])

GameAction_to_u8(a) ==
    IF a.kind = "MovePiece" THEN 0 ELSE IF a.kind = "Stalemate" THEN 1 ELSE 2

\* ToPacket for GameAction: kind, index, end, then the captured squares
GameAction_to_packet(a) ==
    <<GameAction_to_u8(a)>> \o
    (IF a.kind = "MovePiece"
     THEN <<as_u8(a.mov.index), as_u8(a.mov.end)>> \o
          (IF a.mov.captured.some THEN MapSeq(a.mov.captured.list, as_u8) ELSE <<>>)
     ELSE <<>>)

\* FromPacket for GameAction.  From<u8> panics on a kind above 2.  The byte after
\* the kind is read as `to`, the next as `from`, and the move is built as
\* move_piece(from, to, captured).  No byte carries the promoted flag: the flag
\* of the decoded move is a parameter here.
GameAction_from_packet(packet, promoted) ==
    IF Len(packet) = 0 THEN Err("InvalidLength")
    ELSE IF packet[1] > 2 THEN Panic
    ELSE IF packet[1] = 0
    THEN IF Len(packet) < 3 THEN Err("InvalidLength")
         ELSE LET to == packet[2]
                  from == packet[3]
                  captured == IF Len(packet) > 3 THEN CapturedSome(Tail_from(packet, 3))
                              ELSE CapturedNone
              IN Ok(GameAction_move_piece(from, to, captured, promoted))
    ELSE IF Len(packet) # 1 THEN Err("InvalidLength")
    ELSE IF packet[1] = 2 THEN Ok(Surrender)
    ELSE Ok(Stalemate)

P2pRequestPacket_to_u8(p) ==
    CASE p.kind = "Ping" -> 1
      [] p.kind = "Connect" -> 2
      [] p.kind = "Resync" -> 3
      [] p.kind = "GameAction" -> 4

P2pRequestPacket_to_packet(p) ==
    <<P2pRequestPacket_to_u8(p)>> \o
    (CASE p.kind = "Connect" -> p.join_code \o p.username
       [] p.kind = "GameAction" -> GameAction_to_packet(p.action)
       [] OTHER -> <<>>)

\* FromPacket for P2pRequestPacket: the join code is the 12 bytes after the kind,
\* the username what follows (at least one byte); the action is unwrapped
P2pRequestPacket_from_packet(packet, promoted) ==
    IF Len(packet) = 0 THEN Err("Empty")
    ELSE CASE packet[1] = 1 -> Ok(Ping)
           [] packet[1] = 2 ->
                IF Len(packet) < 14 THEN Err("InvalidLength")
                ELSE LET code == from_utf8(SubSeq(packet, 2, 13))
                         username == from_utf8(Tail_from(packet, 13))
                     IN IF ~code.ok THEN code
                        ELSE IF ~username.ok THEN username
                        ELSE Ok(ConnectRequest(code.value, username.value))
           [] packet[1] = 3 -> Ok(ResyncRequest)
           [] packet[1] = 4 ->
                IF Len(packet) < 2 THEN Err("InvalidLength")
                ELSE LET action == GameAction_from_packet(Tail_from(packet, 1), promoted)
                     IN IF action.ok THEN Ok(GameActionRequest(action.value)) ELSE Panic
           [] OTHER -> Err("DataError")

P2pResponsePacket_to_u8(p) ==
    CASE p.kind = "Error" -> 0
      [] p.kind = "Pong" -> 1
      [] p.kind = "Connect" -> 2
      [] p.kind = "Resync" -> 3
      [] p.kind = "Acknowledge" -> 4

P2pResponsePacket_to_packet(p) ==
    <<P2pResponsePacket_to_u8(p)>> \o
    (CASE p.kind = "Error" -> <<P2pError_to_u8(p.err)>>
       [] p.kind = "Connect" -> <<PieceColor_to_u8(p.client_color)>> \o p.host_username
       [] p.kind = "Resync" -> MapSeq(p.board, PieceData_to_u8)
       [] OTHER -> <<>>)

\* the loop over packet[1..]: every byte through PieceData::try_from, the first
\* failure ends the decoding
DecodeBoard(packet) ==
    LET tiles == MapSeq(Tail_from(packet, 1), PieceData_try_from)
    IN IF \A k \in 1 .. Len(tiles) : tiles[k].ok
       THEN Ok([k \in 1 .. Len(tiles) |-> tiles[k].value])
       ELSE Err("DataError")

\* FromPacket for P2pResponsePacket
P2pResponsePacket_from_packet(packet) ==
    IF Len(packet) = 0 THEN Err("Empty")
    ELSE CASE packet[1] = 0 ->
                IF Len(packet) # 2 THEN Err("InvalidLength")
                ELSE LET kind == P2pError_try_from(packet[2])
                     IN IF kind.ok THEN Ok(ErrorResponse(kind.value)) ELSE Err("DataError")
           [] packet[1] = 1 -> Ok(Pong)
           [] packet[1] = 2 ->
                IF Len(packet) < 3 THEN Err("InvalidLength")
                ELSE LET client_color == PieceColor_try_from(packet[2])
                         host_username == from_utf8(Tail_from(packet, 2))
                     IN IF ~client_color.ok THEN client_color
                        ELSE IF ~host_username.ok THEN host_username
                        ELSE Ok(ConnectResponse(client_color.value, host_username.value))
           [] packet[1] = 3 ->
                IF Len(packet) < 65 THEN Err("InvalidLength")
                ELSE LET board == DecodeBoard(packet)
                     IN IF board.ok THEN Ok(ResyncResponse(board.value)) ELSE board
           [] packet[1] = 4 -> Ok(Acknowledge)
           [] OTHER -> Err("DataError")

\* ToPacket for P2pRequest and P2pResponse: frame kind, session id, transaction id
\* (both big endian), payload
P2pRequest_to_packet(req) ==
    <<0>> \o to_be_bytes(req.session_id) \o to_be_bytes(req.transaction_id)
          \o P2pRequestPacket_to_packet(req.packet)

P2pResponse_to_packet(resp) ==
    <<1>> \o to_be_bytes(resp.session_id) \o to_be_bytes(resp.transaction_id)
          \o P2pResponsePacket_to_packet(resp.packet)

P2pRequest_from_packet(packet, promoted) ==
    IF Len(packet) < 6 THEN Err("InvalidLength")
    ELSE IF packet[1] # 0 THEN Err("InvalidType")
    ELSE LET payload == P2pRequestPacket_from_packet(Tail_from(packet, 5), promoted)
         IN IF payload.ok
            THEN Ok(P2pRequest(from_be_bytes(SubSeq(packet, 2, 3)),
                               from_be_bytes(SubSeq(packet, 4, 5)), payload.value))
            ELSE payload

P2pResponse_from_packet(packet) ==
    IF Len(packet) < 6 THEN Err("InvalidLength")
    ELSE IF packet[1] # 1 THEN Err("InvalidType")
    ELSE LET payload == P2pResponsePacket_from_packet(Tail_from(packet, 5))
         IN IF payload.ok
            THEN Ok(P2pResponse(from_be_bytes(SubSeq(packet, 2, 3)),
                                from_be_bytes(SubSeq(packet, 4, 5)), payload.value))
            ELSE payload

P2pPacket_to_packet(v) ==
    IF v.type = "Request" THEN P2pRequest_to_packet(v) ELSE P2pResponse_to_packet(v)

\* FromPacket for P2pPacket: packet[0] is read without a length check
P2pPacket_from_packet(packet, promoted) ==
    IF Len(packet) = 0 THEN Panic
    ELSE IF packet[1] = 0 THEN P2pRequest_from_packet(packet, promoted)
    ELSE IF packet[1] = 1 THEN P2pResponse_from_packet(packet)
    ELSE Err("InvalidType")

(***************************************************************************)
(* src/net/status.rs: ConnectionStatus and CONNECTION_DATA.  The round     *)
(* trip time held by Connected{ping} is left out.                          *)
(***************************************************************************)
Disconnected == [kind |-> "Disconnected", tries |-> 0, ping |-> 0]

PendingConnection == [kind |-> "PendingConnection", tries |-> 0, ping |-> 0]

Reconnecting(t) == [kind |-> "Reconnecting", tries |-> t, ping |-> 0]

Connected(p) == [kind |-> "Connected", tries |-> 0, ping |-> p]

\* ConnectionStatus::connected() and ConnectionStatus::reconnecting()
connected == Connected(0)

reconnecting == Reconnecting(0)

is_connected(st) == st.kind = "Connected"

\* a test that takes PendingConnection for Reconnecting as well
is_reconnecting_or_pending(st) == st.kind \in {"Reconnecting", "PendingConnection"}

\* ConnectionStatus::is_reconnecting
is_reconnecting(st) == st.kind = "Reconnecting"

\* ConnectionStatus::can_send
can_send(st) ==
    CASE st.kind = "Disconnected" -> FALSE
      [] st.kind = "PendingConnection" -> TRUE
      [] st.kind = "Reconnecting" -> TRUE
      [] st.kind = "Connected" -> TRUE

\* set_connection_ping: the ping of a Connected status, no effect on any other
set_connection_ping(st, new_ping) ==
    IF st.kind = "Connected" THEN Connected(new_ping) ELSE st

\* Option<SocketAddr>::None
NoAddr == "none"

(***************************************************************************)
(* src/net/p2p/net_loop.rs: the constants of the loops.  The model counts  *)
(* time in receive timeouts (REQUEST_TIMEOUT_MS).                          *)
(***************************************************************************)
REQUEST_TIMEOUT_MS == 500

DISCONNECT_TIME_MS == 5000

RECONNECT_TRIES == 10

DisconnectTicks == DISCONNECT_TIME_MS \div REQUEST_TIMEOUT_MS

(***************************************************************************)
(* src/net/p2p/queue.rs: TRANSACTION_TABLE and OUTGOING_QUEUE.  A table    *)
(* entry is (Option<P2pPacket>, Option<closure>); a closure is named by    *)
(* the number of the send_game_action call that made it, 0 is None.        *)
(***************************************************************************)
NoPacket == [type |-> "None"]

NoClosure == 0

Entry(response, closure) == [resp |-> response, closure |-> closure]

EmptyTable == [id \in {} |-> Entry(NoPacket, NoClosure)]

\* HashMap::insert and HashMap::remove
table_insert(t, id, e) == [k \in DOMAIN t \cup {id} |-> IF k = id THEN e ELSE t[k]]

table_remove(t, id) == [k \in DOMAIN t \ {id} |-> t[k]]

\* set_response without the table.remove that follows the call of the closure
set_response_keeping(t, transaction_id, response) ==
    IF transaction_id \in DOMAIN t
    THEN IF t[transaction_id].closure # NoClosure
         THEN [table |-> t,
               invoked |-> IF response.type = "Response" THEN t[transaction_id].closure
                           ELSE NoClosure]
         ELSE [table |-> table_insert(t, transaction_id, Entry(response, NoClosure)),
               invoked |-> NoClosure]
    ELSE [table |-> t, invoked |-> NoClosure]

\* set_response, with the table lock held throughout: the new table and the
\* closure it called (NoClosure when it called none)
set_response(t, transaction_id, response) ==
    IF transaction_id \in DOMAIN t
    THEN IF t[transaction_id].closure # NoClosure
         THEN [table |-> table_remove(t, transaction_id),
               invoked |-> IF response.type = "Response" THEN t[transaction_id].closure
                           ELSE NoClosure]
         ELSE [table |-> table_insert(t, transaction_id, Entry(response, NoClosure)),
               invoked |-> NoClosure]
    ELSE [table |-> t, invoked |-> NoClosure]

check_transaction_id(t, transaction_id) == transaction_id \in DOMAIN t

\* new_transaction_id draws random u16 values until one is absent from the table.
\* The model lets it return any of the `width` smallest absent values.
FreshIds(t, width) ==
    {id \in 0 .. (Cardinality(DOMAIN t) + width - 1) :
        /\ id \notin DOMAIN t
        /\ Cardinality({j \in 0 .. id : j \notin DOMAIN t}) <= width}

\* an item of OUTGOING_QUEUE: (packet, transaction id).  n is the number of the
\* push that inserted it and origin the address the packet is meant for; the
\* program keeps neither.
QueueItem(packet, n, origin) ==
    [data |-> packet, id |-> packet.transaction_id, n |-> n, origin |-> origin]

NoPop == [some |-> FALSE, len |-> 0]

NoSent == [some |-> FALSE]

\* VecDeque::pop_back instead of pop_front
pop_newest(q) ==
    IF q = <<>> THEN [some |-> FALSE, rest |-> q]
    ELSE [some |-> TRUE, item |-> q[Len(q)], rest |-> SubSeq(q, 1, Len(q) - 1)]

\* pop_outgoing_queue: VecDeque::pop_front
pop_outgoing_queue(q) ==
    IF q = <<>> THEN [some |-> FALSE, rest |-> q]
    ELSE [some |-> TRUE, item |-> Head(q), rest |-> Tail(q)]

\* a task that enqueues requests (the ping task, the application thread), between
\* two requests.  pc is its place in new_transaction_id / push_outgoing_queue /
\* wait_for_response, id the transaction id it drew, closure the callback it
\* passes, request the packet it builds and, once read, the response it found.
\* recorded is not program state: a response for id arrived while the task waited.
IdleTask == [pc |-> "idle", id |-> 0, closure |-> NoClosure, request |-> NoPacket,
             recorded |-> FALSE, rtt |-> 0]

\* the fuel of a run: how many pings, game actions and datagrams are still to come,
\* and how many of the smallest absent ids new_transaction_id chooses from
Budget(p, a, r, d) == [ping |-> p, app |-> a, recv |-> r, draw |-> d]

\* no datagram handled yet by the receive task of the host
Unhandled == [kind |-> "none"]

\* get_next_game_action has returned nothing yet, or None
NoAction == [some |-> FALSE]

(***************************************************************************)
(* The geometry of the board, used to state the claims and to build the    *)
(* boards the engine is applied to: square i lies on row i \div 4; the     *)
(* squares of an even row lie on the even columns, those of an odd row on  *)
(* the odd columns.                                                        *)
(***************************************************************************)
Row(i) == i \div 4

Col(i) == 2 * (i % 4) + (Row(i) % 2)

OnBoard(r, c) == r \in 0 .. 7 /\ c \in 0 .. 7

SquareAt(r, c) == 4 * r + (c \div 2)

DRow(d) == IF is_up(d) THEN -1 ELSE 1

DCol(d) == IF is_left(d) THEN -1 ELSE 1

DirSet == {"UpRight", "UpLeft", "DownLeft", "DownRight"}

\* the square n steps from i in direction d, or -1 when that is off the board
Step(i, d, n) ==
    IF OnBoard(Row(i) + n * DRow(d), Col(i) + n * DCol(d))
    THEN SquareAt(Row(i) + n * DRow(d), Col(i) + n * DCol(d))
    ELSE -1

\* the directions the rules allow the piece on square i
AllowedDirs(ps, pc, i) ==
    IF ps[i].is_king THEN DirSet
    ELSE IF ps[i].color = pc THEN {d \in DirSet : is_up(d)}
    ELSE {d \in DirSet : is_down(d)}

IsEnemyOf(ps, i, j) == ps[j].is_active /\ ps[j].color # ps[i].color

\* the piece on square i can jump an enemy piece: the enemy is next to it (for a
\* king: at the end of a run of empty squares) and the square behind is empty
CaptureExistsPiece(ps, pc, i) ==
    /\ ps[i].is_active
    /\ \E d \in AllowedDirs(ps, pc, i) : \E n \in 1 .. 7 :
          /\ Step(i, d, n + 1) # -1
          /\ n > 1 => ps[i].is_king
          /\ \A k \in 1 .. (n - 1) : ~ps[Step(i, d, k)].is_active
          /\ IsEnemyOf(ps, i, Step(i, d, n))
          /\ ~ps[Step(i, d, n + 1)].is_active

\* the piece on square i can step to an empty neighbouring square
QuietMoveExistsPiece(ps, pc, i) ==
    /\ ps[i].is_active
    /\ \E d \in AllowedDirs(ps, pc, i) :
          Step(i, d, 1) # -1 /\ ~ps[Step(i, d, 1)].is_active

(***************************************************************************)
(* A capture chain read back from a returned move, by the geometry of the  *)
(* board alone.  The engine appends a jumped square after the squares      *)
(* jumped later, so the last entry of the captured list is the first jump. *)
(***************************************************************************)
Abs(x) == IF x < 0 THEN -x ELSE x

Sign(x) == IF x < 0 THEN -1 ELSE IF x > 0 THEN 1 ELSE 0

OnDiagonal(a, b) == a # b /\ Abs(Row(a) - Row(b)) = Abs(Col(a) - Col(b))

Dist(a, b) == Abs(Row(a) - Row(b))

\* the squares strictly between a and b on their diagonal
Between(a, b) ==
    {s \in Squares : /\ OnDiagonal(a, s) /\ OnDiagonal(s, b)
                     /\ Dist(a, s) + Dist(s, b) = Dist(a, b)}

\* the square right behind c as seen from a, or -1 when that is off the board
Beyond(a, c) ==
    LET r == Row(c) + Sign(Row(c) - Row(a))
        l == Col(c) + Sign(Col(c) - Col(a))
    IN IF OnBoard(r, l) THEN SquareAt(r, l) ELSE -1

\* the opponent's home rank for a piece: rank 0 for a piece of the player's colour
\* (own), rank 7 for a piece of the other colour
BackRank(own, sq) == IF own THEN Row(sq) = 0 ELSE Row(sq) = 7

\* a step from a towards b goes backward for the piece
Backward(own, a, b) == IF own THEN Row(b) > Row(a) ELSE Row(b) < Row(a)

\* on board ps, after the pieces on the squares in taken were jumped, a piece of
\* colour color standing on pos can jump the piece on c: c holds an active enemy
\* piece next to pos on a diagonal (a king: anywhere along it, over empty
\* squares only) and the square behind c is empty
Jumpable(ps, color, pos, king, taken, c) ==
    /\ c \in Squares
    /\ c \notin taken
    /\ OnDiagonal(pos, c)
    /\ ps[c].is_active /\ ps[c].color # color
    /\ Dist(pos, c) = 1 \/ king
    /\ \A s \in Between(pos, c) : ~ps[s].is_active \/ s \in taken
    /\ Beyond(pos, c) # -1
    /\ ~ps[Beyond(pos, c)].is_active \/ Beyond(pos, c) \in taken

NoWalk == [ok |-> FALSE, end |-> -1, rank |-> FALSE, back |-> FALSE, more |-> FALSE]

\* the jumps caps[k], caps[k-1], .., caps[1] made from square pos on board ps by a
\* piece of colour color, after the squares in taken were jumped: whether each is
\* a jump over an active enemy piece onto an empty square (ok), the last landing
\* square (end), whether a landing square lies on the back rank (rank), whether
\* a jump made before the piece reached the back rank goes backward (back), and
\* whether the piece could jump once more from the last landing square (more)
RECURSIVE Walk(_, _, _, _, _, _, _, _)
Walk(ps, color, own, pos, king, caps, k, taken) ==
    IF k = 0
    THEN [ok |-> TRUE, end |-> pos, rank |-> FALSE, back |-> FALSE,
          more |-> \E c \in Squares :
                      /\ Jumpable(ps, color, pos, king, taken, c)
                      /\ king \/ ~Backward(own, pos, c)]
    ELSE IF ~Jumpable(ps, color, pos, king, taken, caps[k]) THEN NoWalk
    ELSE LET c == caps[k]
             land == Beyond(pos, c)
             rest == Walk(ps, color, own, land, king \/ BackRank(own, land), caps,
                          k - 1, taken \cup {c})
         IN [ok |-> rest.ok, end |-> rest.end,
             rank |-> rest.rank \/ BackRank(own, land),
             back |-> rest.back \/ (~king /\ Backward(own, pos, c)),
             more |-> rest.more]

\* the chain of a capturing move m returned for the piece on square i
ChainOf(ps, pc, i, m) ==
    Walk(ps, ps[i].color, ps[i].color = pc, i, ps[i].is_king, m.captured.list,
         Len(m.captured.list), {})

(***************************************************************************)
(* The boards the move engine is applied to: the opening position and      *)
(* sparse positions built around one white focus piece (the player's own   *)
(* piece when the player is White, the opponent's when the player is       *)
(* Black), with up to MaxOthers men of either colour on the squares one or *)
(* two diagonal steps away from it; and positions with one white piece and *)
(* up to MaxChain black men that it can jump one after the other.          *)
(***************************************************************************)
Near(f) == {Step(f, d, n) : d \in DirSet, n \in 1 .. 2} \ {-1}

Man(c) == [is_king |-> FALSE, is_active |-> TRUE, color |-> c]

King(c) == [is_king |-> TRUE, is_active |-> TRUE, color |-> c]

Placements(f) ==
    UNION {[S -> PieceColors] :
             S \in {T \in SUBSET Near(f) : Cardinality(T) <= MaxOthers}}

SparseBoard(f, fp, others) ==
    [i \in Squares |-> IF i = f THEN fp
                       ELSE IF i \in DOMAIN others THEN Man(others[i])
                       ELSE const_default]

\* the squares a piece on f jumps when it captures in the directions ds[k], ds[k+1],
\* .. in turn, each time over the neighbouring square onto the square behind it
RECURSIVE ChainVictims(_, _, _)
ChainVictims(f, ds, k) ==
    IF k > Len(ds) \/ Step(f, ds[k], 2) = -1 THEN {}
    ELSE {Step(f, ds[k], 1)} \cup ChainVictims(Step(f, ds[k], 2), ds, k + 1)

ChainPaths == UNION {[1 .. n -> DirSet] : n \in 1 .. MaxChain}

\* a white piece on f and black men on the squares of such a chain
ChainBoard(f, fp, ds) ==
    [i \in Squares |-> IF i = f THEN fp
                       ELSE IF i \in ChainVictims(f, ds, 1) THEN Man("Black")
                       ELSE const_default]

NoQuery == [kind |-> "none", index |-> -1, res |-> NoMoves]

\* no query since start_new_game(color)
NewGame(color) == [kind |-> "new", index |-> -1, res |-> NoMoves, color |-> color]

\* the board of a process whose move engine is not under study
BoardIdle ==
    /\ player_color = "White"
    /\ pieces = default_setup("White")
    /\ legal = NoQuery

NotDecoded == [kind |-> "none"]

\* the codec at rest
CodecIdle ==
    /\ value = P2pRequest(CONNECT_SESSION_ID, 0, Ping)
    /\ bytes = <<>>
    /\ decoded = NotDecoded

\* the host receive task before its first datagram
HostIdle ==
    /\ elapsed = 0
    /\ peer_silent = 0
    /\ evicted_at = -1
    /\ handled = Unhandled
    /\ incoming = <<>>
    /\ next_action = NoAction

\* connect_to_host_loop not called
NoJoin == [pc |-> "idle", id |-> 0, ticks |-> 0, sent |-> 0]

\* the host of a joining client after start_lan_host: no peer, the sentinel as
\* session id
HostStart ==
    [other_addr |-> NoAddr, session_id |-> CONNECT_SESSION_ID, status |-> Disconnected,
     incoming |-> <<>>]

JoinIdle ==
    /\ join = NoJoin
    /\ host = HostStart
    /\ wire = NoPacket
    /\ flight = NoPacket
    /\ sender = "running"

\* the network state of a process that has neither hosted nor joined, without
\* the fuel of the run
NetIdleBut ==
    /\ status = Disconnected
    /\ other_addr = NoAddr
    /\ session_id = CONNECT_SESSION_ID
    /\ join_code = NoAddr
    /\ table = EmptyTable
    /\ outq = <<>>
    /\ pushes = 0
    /\ called = <<>>
    /\ sent_count = 0
    /\ last_sent = NoSent
    /\ last_pop = NoPop
    /\ ping = IdleTask
    /\ app = IdleTask
    /\ timeouts = 0
    /\ HostIdle
    /\ JoinIdle

\* the network state of a process that has neither hosted nor joined
NetIdle ==
    /\ NetIdleBut
    /\ budget = Budget(0, 0, 0, 1)

InitBoard ==
    /\ CodecIdle
    /\ NetIdle
    /\ player_color \in PieceColors
    /\ \/ pieces = default_setup(player_color)
       \/ \E f \in Squares : \E fp \in {Man("White"), King("White")} :
            \E others \in Placements(f) : pieces = SparseBoard(f, fp, others)
       \/ \E f \in Squares : \E fp \in {Man("White"), King("White")} :
            \E ds \in ChainPaths : pieces = ChainBoard(f, fp, ds)
    /\ legal = NoQuery

\* Board::start_new_game
StartNewGame ==
    /\ legal.kind \in {"none", "new", "moved"}
    /\ \E color \in PieceColors :
          /\ player_color' = color
          /\ pieces' = default_setup(color)
          /\ legal' = NewGame(color)
    /\ UNCHANGED <<codec_vars, net_vars>>

\* a call of Board::get_legal_moves
QueryAll ==
    /\ legal.kind \in {"none", "new"}
    /\ legal' = [kind |-> "all", index |-> -1, res |-> get_legal_moves(pieces, player_color)]
    /\ UNCHANGED <<pieces, player_color, codec_vars, net_vars>>

\* the squares a query is made for: every piece, and the first empty square
QuerySquares(ps) ==
    {i \in Squares : ps[i].is_active \/ \A j \in 0 .. (i - 1) : ps[j].is_active}

\* a call of Board::get_legal_moves_piece(index)
QueryPiece ==
    /\ legal.kind \in {"none", "new"}
    /\ \E index \in QuerySquares(pieces) :
          legal' = [kind |-> "piece", index |-> index,
                    res |-> get_legal_moves_piece(pieces, player_color, index)]
    /\ UNCHANGED <<pieces, player_color, codec_vars, net_vars>>

\* set_board_move(mov) followed by Board::move_piece, for a move the engine returned
MovePiece ==
    /\ legal.kind \in {"all", "piece"}
    /\ \E k \in 1 .. Len(legal.res.moves) :
          /\ pieces' = move_piece(pieces, legal.res.moves[k])
          /\ legal' = [kind |-> "moved", index |-> -1,
                       res |-> SomeMoves(<<legal.res.moves[k]>>, legal.res.taking)]
    /\ UNCHANGED <<player_color, codec_vars, net_vars>>

\* the moves a peer can send for the first move of a game: any two squares, with
\* no capture or with the capture of one square on or around them; the receiver
\* applies what arrives without validating it
PeerMoves ==
    {Move(i, e, c, p) :
        i \in Squares, e \in Squares, p \in BOOLEAN,
        c \in {CapturedNone} \cup {CapturedSome(<<q>>) : q \in Squares}}

PeerCaptureNear(m) ==
    m.captured.some => m.captured.list[1] \in {m.index, m.end} \cup Near(m.index)

\* wait_for_opponent: set_board_move(&mov.reverse()) followed by Board::move_piece,
\* for the peer's move on the opening position
MovePeer ==
    /\ legal.kind \in {"none", "new"}
    /\ pieces = default_setup(player_color)
    /\ \E m \in PeerMoves :
          /\ PeerCaptureNear(m)
          /\ pieces' = move_piece(pieces, reverse(m))
          /\ legal' = [kind |-> "moved", index |-> -1,
                       res |-> SomeMoves(<<reverse(m)>>, m.captured.some)]
    /\ UNCHANGED <<player_color, codec_vars, net_vars>>

NextBoard == StartNewGame \/ QueryAll \/ QueryPiece \/ MovePiece \/ MovePeer

SpecBoard == InitBoard /\ [][NextBoard]_vars

(***************************************************************************)
(* SpecCodec: a packet value is encoded and the bytes are decoded again.   *)
(***************************************************************************)
CodecSessionIds == {CONNECT_SESSION_ID, 7}

CodecTransactionIds == {1, 513}

\* a join code as hex_encode_ip makes it (12 characters), and a shorter one
CodecJoinCodes == {[k \in 1 .. 12 |-> 48 + (k % 10)], <<97, 98, 99>>}

CodecUsernames == {<<>>, <<65>>, <<65, 116, 108, 101>>}

CodecMoves ==
    {Move(sq[1], sq[2], c, p) :
        sq \in {<<20, 16>>, <<9, 18>>},
        c \in {CapturedNone, CapturedSome(<<>>), CapturedSome(<<13>>),
               CapturedSome(<<13, 22>>)},
        p \in BOOLEAN}

CodecActions ==
    {Stalemate, Surrender} \cup
    {GameAction_move_piece(m.index, m.end, m.captured, m.promoted) : m \in CodecMoves}

\* Vec<PieceData>: no square, the 32 squares of the opening position, and 64 squares
CodecBoards ==
    {<<>>,
     [k \in 1 .. BoardLen |-> default_setup("White")[k - 1]],
     [k \in 1 .. 2 * BoardLen |-> IF k % 3 = 0 THEN King("Black") ELSE const_default]}

CodecRequestPackets ==
    {Ping, ResyncRequest} \cup
    {ConnectRequest(c, u) : c \in CodecJoinCodes, u \in CodecUsernames} \cup
    {GameActionRequest(a) : a \in CodecActions}

CodecResponsePackets ==
    {Pong, Acknowledge} \cup
    {ErrorResponse(P2pErrors[n]) : n \in 1 .. Len(P2pErrors)} \cup
    {ConnectResponse(c, u) : c \in PieceColors, u \in CodecUsernames} \cup
    {ResyncResponse(b) : b \in CodecBoards}

CodecValues ==
    {P2pRequest(s, t, p) :
        s \in CodecSessionIds, t \in CodecTransactionIds, p \in CodecRequestPackets} \cup
    {P2pResponse(s, t, p) :
        s \in CodecSessionIds, t \in CodecTransactionIds, p \in CodecResponsePackets}

InitCodec ==
    /\ value \in CodecValues
    /\ bytes = <<>>
    /\ decoded = NotDecoded
    /\ BoardIdle
    /\ NetIdle

\* to_packet, as send_p2p_packet calls it
Encode ==
    /\ bytes = <<>>
    /\ bytes' = P2pPacket_to_packet(value)
    /\ UNCHANGED <<value, decoded, board_vars, net_vars>>

\* P2pPacket::from_packet, as recieve_p2p_packet calls it
Decode ==
    /\ bytes # <<>>
    /\ decoded = NotDecoded
    /\ \E promoted \in BOOLEAN :
          decoded' = [kind |-> "done", res |-> P2pPacket_from_packet(bytes, promoted)]
    /\ UNCHANGED <<value, bytes, board_vars, net_vars>>

NextCodec == Encode \/ Decode

SpecCodec == InitCodec /\ [][NextCodec]_vars

(***************************************************************************)
(* SpecPiece: one PieceData is packed into its byte and the byte is        *)
(* unpacked again, as the Resync arms of to_packet and from_packet do for  *)
(* each square; or a byte that arrived is unpacked.                        *)
(***************************************************************************)
\* every PieceData value
PieceValues == [is_king : BOOLEAN, is_active : BOOLEAN, color : PieceColors]

\* every u8
ByteValues == 0 .. 255

InitPiece ==
    /\ \/ \E p \in PieceValues : value = [kind |-> "Piece", piece |-> p] /\ bytes = <<>>
       \/ \E b \in ByteValues : value = [kind |-> "Byte", byte |-> b] /\ bytes = <<b>>
    /\ decoded = NotDecoded
    /\ BoardIdle
    /\ NetIdle

\* tile.to_u8() in the Resync arm of to_packet
PackPiece ==
    /\ bytes = <<>>
    /\ bytes' = <<PieceData_to_u8(value.piece)>>
    /\ UNCHANGED <<value, decoded, board_vars, net_vars>>

\* PieceData::try_from(byte) in the Resync arm of from_packet
UnpackPiece ==
    /\ bytes # <<>>
    /\ decoded = NotDecoded
    /\ decoded' = [kind |-> "done", res |-> PieceData_try_from(bytes[1])]
    /\ UNCHANGED <<value, bytes, board_vars, net_vars>>

NextPiece == PackPiece \/ UnpackPiece

SpecPiece == InitPiece /\ [][NextPiece]_vars

(***************************************************************************)
(* SpecDecode: the receive task of a network loop gets datagrams that are  *)
(* no well-formed frame: frames cut short at every length, the empty       *)
(* datagram included, and frames with a byte replaced.  recieve_p2p_packet *)
(* decodes the datagram; on Err the loop continues with the next datagram, *)
(* a panic ends the task.  What the task does with a well-formed frame is  *)
(* the subject of SpecHost and SpecClient.                                 *)
(***************************************************************************)
\* the frames the datagrams are made of
DecodeSeeds ==
    {P2pRequest(7, 513, p) :
        p \in {Ping, ResyncRequest, ConnectRequest([k \in 1 .. 12 |-> 48 + (k % 10)], <<65, 116>>),
               GameActionRequest(Surrender),
               GameActionRequest(GameAction_move_piece(9, 18, CapturedSome(<<13>>), FALSE))}}
    \cup
    {P2pResponse(7, 513, p) :
        p \in {Pong, Acknowledge, ErrorResponse("InvalidJoinCode"),
               ConnectResponse("White", <<65, 116>>),
               ResyncResponse([k \in 1 .. 2 * BoardLen |-> const_default])}}

\* the bytes put in the place of a byte of a frame
BadBytes == {9, 255}

\* the places of the frame kind, the payload kind and the byte after it
BadPlaces == {1, 6, 7}

Truncations(b) == {SubSeq(b, 1, n) : n \in 0 .. (Len(b) - 1)}

Corruptions(b) == {[b EXCEPT ![k] = x] : k \in BadPlaces \cap DOMAIN b, x \in BadBytes}

Mangled(b) == Truncations(b) \cup Corruptions(b)

\* the receive task: waiting for a datagram, or ended by a panic
Receiving == [kind |-> "Receiving"]

Dropped == [kind |-> "Dropped"]

Panicked == [kind |-> "Panicked"]

InitDecode ==
    /\ \E v \in DecodeSeeds : \E b \in Mangled(P2pPacket_to_packet(v)) :
          /\ value = v
          /\ bytes = b
    /\ decoded = NotDecoded
    /\ BoardIdle
    /\ NetIdle

\* recieve_p2p_packet returns Err and the loop continues
RecvDrop ==
    /\ handled # Panicked
    /\ decoded = NotDecoded
    /\ \E promoted \in BOOLEAN :
          LET res == P2pPacket_from_packet(bytes, promoted)
          IN /\ ~res.ok
             /\ ~res.panic
             /\ decoded' = [kind |-> "done", res |-> res]
             /\ handled' = Dropped
    /\ UNCHANGED <<value, bytes, board_vars, status_vars, table, outq, pushes, called,
                   sent_count, last_sent, last_pop, ping, app, budget, timeouts, elapsed,
                   peer_silent, evicted_at, incoming, next_action, join_vars>>

\* from_packet panics inside recieve_p2p_packet: the task ends
RecvPanic ==
    /\ handled # Panicked
    /\ decoded = NotDecoded
    /\ \E promoted \in BOOLEAN :
          LET res == P2pPacket_from_packet(bytes, promoted)
          IN /\ res.panic
             /\ decoded' = [kind |-> "done", res |-> res]
             /\ handled' = Panicked
    /\ UNCHANGED <<value, bytes, board_vars, status_vars, table, outq, pushes, called,
                   sent_count, last_sent, last_pop, ping, app, budget, timeouts, elapsed,
                   peer_silent, evicted_at, incoming, next_action, join_vars>>

\* the next turn of the loop: the task waits for the next datagram
RecvNext ==
    /\ handled = Dropped
    /\ handled' = Receiving
    /\ decoded' = NotDecoded
    /\ \E v \in DecodeSeeds : \E b \in Mangled(P2pPacket_to_packet(v)) :
          /\ value' = v
          /\ bytes' = b
    /\ UNCHANGED <<board_vars, status_vars, table, outq, pushes, called,
                   sent_count, last_sent, last_pop, ping, app, budget, timeouts, elapsed,
                   peer_silent, evicted_at, incoming, next_action, join_vars>>

NextDecode == RecvDrop \/ RecvPanic \/ RecvNext

SpecDecode == InitDecode /\ [][NextDecode]_vars

(***************************************************************************)
(* push_outgoing_queue: push_back under the queue lock, then the table     *)
(* entry (None, closure) under the table lock.  The two tasks that enqueue *)
(* requests take these as separate steps; `who` is "ping" or "app".        *)
(***************************************************************************)
Task(who) == IF who = "ping" THEN ping ELSE app

SetTask(who, t) ==
    IF who = "ping" THEN ping' = t /\ UNCHANGED app
    ELSE app' = t /\ UNCHANGED ping

\* OUTGOING_QUEUE.lock().await.push_back((data, transaction_id))
PushQueue(who) ==
    /\ Task(who).pc = "drawn"
    /\ outq' = Append(outq, QueueItem(Task(who).request, pushes + 1, other_addr))
    /\ pushes' = pushes + 1
    /\ SetTask(who, [Task(who) EXCEPT !.pc = "queued"])
    /\ UNCHANGED <<status_vars, table, called, sent_count, last_sent, last_pop, budget,
                   timeouts, host_vars, join_vars, board_vars,
                   codec_vars>>

\* TRANSACTION_TABLE.lock().await.insert(transaction_id, (None, closure))
PushTable(who) ==
    /\ Task(who).pc = "queued"
    /\ table' = table_insert(table, Task(who).id, Entry(NoPacket, Task(who).closure))
    /\ SetTask(who, IF who = "ping" THEN [ping EXCEPT !.pc = "waiting"] ELSE IdleTask)
    /\ UNCHANGED <<status_vars, outq, pushes, called, sent_count, last_sent, last_pop,
                   budget, timeouts, host_vars, join_vars, board_vars,
                   codec_vars>>

(***************************************************************************)
(* src/net/interface.rs: send_game_action on the application thread.       *)
(***************************************************************************)
\* the closure is made, the session id read and new_transaction_id called
AppDraw ==
    /\ app.pc = "idle"
    /\ budget.app > 0
    /\ \E id \in FreshIds(table, budget.draw) :
          app' = [pc |-> "drawn", id |-> id, closure |-> Len(called) + 1,
                  request |-> P2pRequest(session_id, id, GameActionRequest(Surrender)),
                  recorded |-> FALSE, rtt |-> 0]
    /\ called' = Append(called, [id |-> app.id', n |-> 0])
    /\ budget' = [budget EXCEPT !.app = @ - 1]
    /\ UNCHANGED <<status_vars, table, outq, pushes, ping, sent_count, last_sent, last_pop,
                   timeouts, host_vars, join_vars, board_vars,
                   codec_vars>>

AppPushQueue == PushQueue("app")

AppPushTable == PushTable("app")

(***************************************************************************)
(* src/net/p2p/net_loop.rs: the outgoing task of both loops.  One turn of  *)
(* the loop: nothing while no peer address is set, else pop and transmit   *)
(* to that address.                                                        *)
(***************************************************************************)
SendIteration ==
    /\ other_addr # NoAddr
    /\ LET r == pop_outgoing_queue(outq)
       IN /\ outq' = r.rest
          /\ last_pop' = [some |-> r.some, len |-> Len(outq)]
          /\ IF r.some
             THEN /\ last_sent' = [some |-> TRUE, item |-> r.item, to |-> other_addr]
                  /\ sent_count' = sent_count + 1
             ELSE UNCHANGED <<last_sent, sent_count>>
    /\ UNCHANGED <<status_vars, table, pushes, called, ping, app, budget, timeouts,
                   host_vars, join_vars, board_vars,
                   codec_vars>>

(***************************************************************************)
(* src/net/p2p/net_loop.rs: the ping task of the client loop.              *)
(***************************************************************************)
\* a tick of the interval that passes both guards: the session id is read and
\* new_transaction_id called
PingTick ==
    /\ ping.pc = "idle"
    /\ budget.ping > 0
    /\ is_connected(status) \/ is_reconnecting(status)
    /\ other_addr # NoAddr
    /\ \E id \in FreshIds(table, budget.draw) :
          ping' = [pc |-> "drawn", id |-> id, closure |-> NoClosure,
                   request |-> P2pRequest(session_id, id, Ping), recorded |-> FALSE,
                   rtt |-> 0]
    /\ budget' = [budget EXCEPT !.ping = @ - 1]
    /\ UNCHANGED <<status_vars, table, outq, pushes, called, app, sent_count, last_sent,
                   last_pop, timeouts, host_vars, join_vars, board_vars,
                   codec_vars>>

PingPushQueue == PushQueue("ping")

PingPushTable == PushTable("ping")

\* the values of time.elapsed() when a response is found, in ticks of the model
Rtts == 1 .. MaxRtt

\* wait_for_response, first lock: a turn of the loop that finds a response; rtt
\* is the time the task will read from its Instant
PingWaitRead ==
    /\ ping.pc = "waiting"
    /\ ping.id \in DOMAIN table
    /\ table[ping.id].resp # NoPacket
    /\ \E rtt \in Rtts :
          ping' = [ping EXCEPT !.pc = "got", !.request = table[ping.id].resp, !.rtt = rtt]
    /\ UNCHANGED <<status_vars, table, outq, pushes, called, app, sent_count, last_sent,
                   last_pop, budget, timeouts, host_vars, join_vars, board_vars,
                   codec_vars>>

\* an Ok branch that does not store the measured time
ping_success_unmeasured(st, elapsed_ns) == IF is_connected(st) THEN st ELSE connected

\* the Ok branch of the ping task: the status after a response, elapsed_ns being
\* the measured time
ping_success(st, elapsed_ns) ==
    set_connection_ping(IF is_connected(st) THEN st ELSE connected, elapsed_ns)

\* wait_for_response, second lock: the entry is removed and the response returned;
\* then the Ok branch of the ping task
PingWaitReturn ==
    /\ ping.pc = "got"
    /\ table' = table_remove(table, ping.id)
    /\ status' = ping_success(status, ping.rtt)
    /\ timeouts' = 0
    /\ ping' = IdleTask
    /\ UNCHANGED <<other_addr, session_id, join_code, outq, pushes, called, app, sent_count,
                   last_sent, last_pop, budget, host_vars, join_vars, board_vars,
                   codec_vars>>

\* the Err branch with Reconnecting{tries: 1} as the status after a first timeout
ping_timeout_from_one(st) ==
    IF is_reconnecting(st)
    THEN IF st.tries >= RECONNECT_TRIES
         THEN [status |-> Disconnected, remove |-> TRUE]
         ELSE [status |-> Reconnecting(st.tries + 1), remove |-> FALSE]
    ELSE [status |-> Reconnecting(1), remove |-> FALSE]

\* the Err branch of the ping task: the status after a timeout, and whether the
\* peer address and username are removed
ping_timeout(st) ==
    IF is_reconnecting(st)
    THEN IF st.tries >= RECONNECT_TRIES
         THEN [status |-> Disconnected, remove |-> TRUE]
         ELSE [status |-> Reconnecting(st.tries + 1), remove |-> FALSE]
    ELSE [status |-> reconnecting, remove |-> FALSE]

\* tokio::time::timeout gives up on wait_for_response at one of its awaits: the
\* entry of the ping stays in the table
PingTimeout ==
    /\ ping.pc \in {"waiting", "got"}
    /\ status' = ping_timeout(status).status
    /\ other_addr' = IF ping_timeout(status).remove THEN NoAddr ELSE other_addr
    /\ timeouts' = timeouts + 1
    /\ ping' = IdleTask
    /\ UNCHANGED <<session_id, join_code, table, outq, pushes, called, app, sent_count,
                   last_sent, last_pop, budget, host_vars, join_vars, board_vars,
                   codec_vars>>

(***************************************************************************)
(* src/net/p2p/net_loop.rs: the receive task of the client loop, for a     *)
(* Response datagram from the peer address.                                *)
(***************************************************************************)
ResponsePayloads == {Pong}

\* the responses the transport may deliver: any payload, any of these ids
RespIds == 0 .. MaxRespId

Invoke(c, closure) ==
    IF closure = NoClosure THEN c ELSE [c EXCEPT ![closure].n = @ + 1]

ClientRecvResponse(id, payload) ==
    /\ other_addr # NoAddr
    /\ budget.recv > 0
    /\ LET r == set_response(table, id, P2pResponse(session_id, id, payload))
       IN /\ table' = r.table
          /\ called' = Invoke(called, r.invoked)
    /\ ping' = IF ping.pc = "waiting" /\ ping.id = id THEN [ping EXCEPT !.recorded = TRUE]
               ELSE ping
    /\ budget' = [budget EXCEPT !.recv = @ - 1]
    /\ UNCHANGED <<status_vars, outq, pushes, app, sent_count, last_sent, last_pop, timeouts,
                   host_vars, join_vars, board_vars,
                   codec_vars>>

\* the ids of the responses that can arrive: those of RespIds and the id of the
\* ping that is waiting for its response
ArrivingIds == RespIds \cup (IF ping.pc = "waiting" THEN {ping.id} ELSE {})

ClientRecv ==
    \E id \in ArrivingIds : \E payload \in ResponsePayloads : ClientRecvResponse(id, payload)

(***************************************************************************)
(* src/net/p2p/net_loop.rs: the receive task of the host loop.  One turn   *)
(* of the loop is the receive (a datagram, or the timeout after            *)
(* REQUEST_TIMEOUT_MS) followed by the test at the top of the next turn.   *)
(* elapsed is time_since_ping.elapsed() in receive timeouts; a datagram is *)
(* taken to arrive at the start of the wait.                               *)
(***************************************************************************)
Min(a, b) == IF a < b THEN a ELSE b

Addrs == {"a1", "a2"}

JoinCodes == {"good", "bad"}

\* a u16: the sentinel, and one other value
SessionIds == {CONNECT_SESSION_ID, 7}

Answer(packet, oa, sid, st) ==
    [packet |-> packet, other_addr |-> oa, session_id |-> sid, status |-> st]

\* the Connect arm without the test of the session id
host_connect_any_session(req, addr, oa, jc, sid, st, fresh) ==
    IF oa # NoAddr THEN Answer(ErrorResponse("FullGameSession"), oa, sid, st)
    ELSE IF req.packet.join_code # jc
    THEN Answer(ErrorResponse("InvalidJoinCode"), oa, sid, st)
    ELSE Answer(ConnectResponse("White", "Atle"), addr, fresh, connected)

\* the Connect arm: the response payload and the session state it leaves;
\* fresh is the value of rand::random::<u16>()
host_connect(req, addr, oa, jc, sid, st, fresh) ==
    IF oa # NoAddr THEN Answer(ErrorResponse("FullGameSession"), oa, sid, st)
    ELSE IF req.packet.join_code # jc
    THEN Answer(ErrorResponse("InvalidJoinCode"), oa, sid, st)
    ELSE IF req.session_id # CONNECT_SESSION_ID
    THEN Answer(ErrorResponse("InvalidSessionId"), oa, sid, st)
    ELSE Answer(ConnectResponse("White", "Atle"), addr, fresh, connected)

\* the match on req.packet
host_answer(req, addr, oa, jc, sid, st, fresh) ==
    CASE req.packet.kind = "Ping" -> Answer(Pong, oa, sid, st)
      [] req.packet.kind = "Connect" -> host_connect(req, addr, oa, jc, sid, st, fresh)
      [] req.packet.kind = "Resync" -> Answer(ResyncResponse(<<>>), oa, sid, st)
      [] req.packet.kind = "GameAction" -> Answer(Acknowledge, oa, sid, st)

\* a Request datagram from addr: the answer is enqueued with
\* push_outgoing_queue(response, None) and time_since_ping is reset
HostRecvRequest(addr, req, fresh) ==
    /\ budget.recv > 0
    /\ LET a == host_answer(req, addr, other_addr, join_code, session_id, status, fresh)
           response == P2pResponse(a.session_id, req.transaction_id, a.packet)
       IN /\ status' = a.status
          /\ other_addr' = a.other_addr
          /\ session_id' = a.session_id
          /\ outq' = Append(outq, QueueItem(response, pushes + 1, addr))
          /\ table' = table_insert(table, req.transaction_id, Entry(NoPacket, NoClosure))
          /\ peer_silent' = IF a.other_addr = addr THEN 0 ELSE peer_silent
          /\ handled' = [kind |-> "Request", from |-> addr, req |-> req,
                         answer |-> a.packet, fresh |-> fresh, resp |-> response]
    /\ incoming' = IF req.packet.kind = "GameAction" THEN Append(incoming, req.packet.action)
                   ELSE incoming
    /\ pushes' = pushes + 1
    /\ elapsed' = 0
    /\ budget' = [budget EXCEPT !.recv = @ - 1]
    /\ UNCHANGED <<join_code, called, sent_count, last_sent, last_pop, ping, app, timeouts,
                   evicted_at, next_action, join_vars, board_vars,
                   codec_vars>>

\* a Response datagram from addr: dropped unless its id is in the table
HostRecvResponse(addr, id, payload) ==
    /\ budget.recv > 0
    /\ LET r == IF check_transaction_id(table, id)
                THEN set_response(table, id, P2pResponse(session_id, id, payload))
                ELSE [table |-> table, invoked |-> NoClosure]
       IN /\ table' = r.table
          /\ called' = Invoke(called, r.invoked)
          /\ handled' = [kind |-> "Response", from |-> addr, id |-> id,
                         invoked |-> r.invoked]
    /\ peer_silent' = IF addr = other_addr THEN 0 ELSE peer_silent
    /\ budget' = [budget EXCEPT !.recv = @ - 1]
    /\ UNCHANGED <<status_vars, outq, pushes, sent_count, last_sent, last_pop, ping, app,
                   timeouts, elapsed, evicted_at, incoming, next_action, join_vars,
                   board_vars,
                   codec_vars>>

\* the receive times out; at the top of the next turn the peer is removed when
\* time_since_ping is DISCONNECT_TIME_MS old
HostRecvTimeout ==
    LET now == Min(elapsed + 1, DisconnectTicks)
        silent == IF other_addr = NoAddr THEN 0
                  ELSE Min(peer_silent + 1, DisconnectTicks + 1)
    IN /\ elapsed' = now
       /\ IF now >= DisconnectTicks /\ other_addr # NoAddr
          THEN /\ other_addr' = NoAddr
               /\ session_id' = CONNECT_SESSION_ID
               /\ evicted_at' = silent
               /\ peer_silent' = 0
          ELSE /\ peer_silent' = silent
               /\ UNCHANGED <<other_addr, session_id, evicted_at>>
       /\ UNCHANGED <<status, join_code, table, outq, pushes, called, sent_count, last_sent,
                      last_pop, ping, app, budget, timeouts, handled, incoming, next_action,
                      join_vars, board_vars,
                   codec_vars>>

HostRequests ==
    {P2pRequest(s, t, p) :
        s \in SessionIds, t \in RespIds,
        p \in {Ping, ResyncRequest, GameActionRequest(Surrender)} \cup
              {ConnectRequest(c, "client") : c \in JoinCodes}}

HostRecv ==
    \E addr \in Addrs :
       \/ \E req \in HostRequests : \E fresh \in SessionIds : HostRecvRequest(addr, req, fresh)
       \/ \E id \in RespIds : HostRecvResponse(addr, id, Acknowledge)

(***************************************************************************)
(* SpecClient: a joined client.  The ping task and the application thread  *)
(* enqueue requests, the outgoing task transmits them, the receive task    *)
(* stores the responses the host sends.                                    *)
(***************************************************************************)
\* the client after a join: host address and session id set
Joined ==
    /\ status = connected
    /\ other_addr = "a1"
    /\ session_id = 7
    /\ join_code = "good"
    /\ table = EmptyTable
    /\ outq = <<>>
    /\ pushes = 0
    /\ called = <<>>
    /\ sent_count = 0
    /\ last_sent = NoSent
    /\ last_pop = NoPop
    /\ ping = IdleTask
    /\ app = IdleTask
    /\ timeouts = 0
    /\ HostIdle
    /\ JoinIdle

InitClient ==
    /\ Joined
    /\ budget = Budget(MaxPings, MaxActions, MaxRecv, MaxDraw)
    /\ BoardIdle
    /\ CodecIdle

NextClient ==
    \/ PingTick \/ PingPushQueue \/ PingPushTable \/ PingWaitRead \/ PingWaitReturn
    \/ PingTimeout
    \/ AppDraw \/ AppPushQueue \/ AppPushTable
    \/ SendIteration
    \/ ClientRecv

SpecClient == InitClient /\ [][NextClient]_vars

(***************************************************************************)
(* SpecPing: the ping task of a joined client on its own, with pings       *)
(* enough to run through the retry budget.                                 *)
(***************************************************************************)
InitPing ==
    /\ Joined
    /\ budget = Budget(RECONNECT_TRIES + 2 + MaxPings, 0, MaxRecv, PingDraw)
    /\ BoardIdle
    /\ CodecIdle

NextPing ==
    \/ PingTick \/ PingPushQueue \/ PingPushTable \/ PingWaitRead \/ PingWaitReturn
    \/ PingTimeout
    \/ SendIteration
    \/ ClientRecv

SpecPing == InitPing /\ [][NextPing]_vars

(***************************************************************************)
(* SpecHost: a host after start_lan_host.  The receive task answers        *)
(* requests and stores responses, the application thread sends game        *)
(* actions, the outgoing task transmits to the bound peer.                 *)
(***************************************************************************)
InitHost ==
    /\ status = Disconnected
    /\ other_addr = NoAddr
    /\ session_id = CONNECT_SESSION_ID
    /\ join_code = "good"
    /\ table = EmptyTable
    /\ outq = <<>>
    /\ pushes = 0
    /\ called = <<>>
    /\ sent_count = 0
    /\ last_sent = NoSent
    /\ last_pop = NoPop
    /\ ping = IdleTask
    /\ app = IdleTask
    /\ timeouts = 0
    /\ HostIdle
    /\ JoinIdle
    /\ budget = Budget(0, MaxActions, MaxRecv, MaxDraw)
    /\ BoardIdle
    /\ CodecIdle

NextHost ==
    \/ HostRecv
    \/ AppDraw \/ AppPushQueue \/ AppPushTable
    \/ SendIteration

SpecHost == InitHost /\ [][NextHost]_vars

(***************************************************************************)
(* SpecEvict: the receive task of a host on its own, with its receive      *)
(* timeouts: a peer joins, datagrams arrive from it and from another       *)
(* address, and the inactivity check removes the peer.                     *)
(***************************************************************************)
EvictRequests ==
    {P2pRequest(CONNECT_SESSION_ID, 0, ConnectRequest("good", "client")),
     P2pRequest(7, 0, Ping)}

EvictRecv ==
    \E addr \in Addrs :
       \/ \E req \in EvictRequests : HostRecvRequest(addr, req, 7)
       \/ HostRecvResponse(addr, 0, Acknowledge)

InitEvict ==
    /\ status = Disconnected
    /\ other_addr = NoAddr
    /\ session_id = CONNECT_SESSION_ID
    /\ join_code = "good"
    /\ table = EmptyTable
    /\ outq = <<>>
    /\ pushes = 0
    /\ called = <<>>
    /\ sent_count = 0
    /\ last_sent = NoSent
    /\ last_pop = NoPop
    /\ ping = IdleTask
    /\ app = IdleTask
    /\ timeouts = 0
    /\ HostIdle
    /\ JoinIdle
    /\ budget = Budget(0, 0, MaxRecv + 1, MaxDraw)
    /\ BoardIdle
    /\ CodecIdle

NextEvict == EvictRecv \/ HostRecvTimeout

SpecEvict == InitEvict /\ [][NextEvict]_vars

(***************************************************************************)
(* src/net/interface.rs: connect_to_host_loop on the application thread of *)
(* a client, and the host it talks to.  The host is the Connect arm and    *)
(* the other arms of the host loop applied to the host's own session       *)
(* state; one response of the host is in flight at a time, a newer one     *)
(* replaces it.                                                            *)
(***************************************************************************)
\* the checks of one attempt: for _ in 0..25
JOIN_TICKS == 25

HostAddr == "a1"

ClientAddr == "c1"

\* queue.rs check_for_response: the stored response, removed from the table
\* when there is one
check_for_response(t, transaction_id) ==
    LET response == IF transaction_id \in DOMAIN t THEN t[transaction_id].resp
                    ELSE NoPacket
    IN [table |-> IF response # NoPacket THEN table_remove(t, transaction_id) ELSE t,
        resp |-> response]

\* check_for_connection_resp that takes any response for a success
check_for_connection_resp_any(t, transaction_id, st, sid) ==
    LET r == check_for_response(t, transaction_id)
    IN IF r.resp = NoPacket
       THEN [table |-> r.table, status |-> st, session_id |-> sid, result |-> "none"]
       ELSE [table |-> r.table, status |-> connected, session_id |-> r.resp.session_id,
             result |-> "ok"]

\* check_for_connection_resp: None ("none"), Some(Ok) with the status and the
\* session id set ("ok"), or Some(Err) ("err")
check_for_connection_resp(t, transaction_id, st, sid) ==
    LET r == check_for_response(t, transaction_id)
    IN IF r.resp = NoPacket
       THEN [table |-> r.table, status |-> st, session_id |-> sid, result |-> "none"]
       ELSE IF r.resp.type = "Response" /\ r.resp.packet.kind = "Connect"
       THEN [table |-> r.table, status |-> connected, session_id |-> r.resp.session_id,
             result |-> "ok"]
       ELSE [table |-> r.table, status |-> st, session_id |-> sid, result |-> "err"]

\* send_join_request, called when connect_to_host_loop is entered by a client
\* that is in no session, and again by its loop after JOIN_TICKS checks without
\* a response
JoinRequest ==
    /\ join.sent < MaxJoins
    /\ \/ join.pc # "polling" /\ ~is_connected(status) /\ ~is_reconnecting(status)
       \/ join.pc = "polling" /\ join.ticks = JOIN_TICKS
    /\ \E id \in FreshIds(table, budget.draw) :
          LET join_request ==
                  P2pRequest(CONNECT_SESSION_ID, id, ConnectRequest("good", "client"))
          IN /\ outq' = Append(outq, QueueItem(join_request, pushes + 1, HostAddr))
             /\ table' = table_insert(table, id, Entry(NoPacket, NoClosure))
             /\ join' = [pc |-> "polling", id |-> id, ticks |-> 0, sent |-> join.sent + 1]
    /\ join_code' = "good"
    /\ other_addr' = HostAddr
    /\ status' = PendingConnection
    /\ pushes' = pushes + 1
    /\ UNCHANGED <<session_id, called, sent_count, last_sent, last_pop, ping, app, budget,
                   timeouts, host_vars, host, wire, link_vars, board_vars, codec_vars>>

\* a tick of connection_tick and check_for_connection_resp(join_id)
JoinTick ==
    /\ join.pc = "polling"
    /\ join.ticks < JOIN_TICKS
    /\ LET r == check_for_connection_resp(table, join.id, status, session_id)
       IN /\ table' = r.table
          /\ status' = r.status
          /\ session_id' = r.session_id
          /\ join' = IF r.result = "none" THEN [join EXCEPT !.ticks = @ + 1]
                     ELSE [join EXCEPT !.pc = r.result, !.ticks = 0]
    /\ UNCHANGED <<other_addr, join_code, outq, pushes, called, sent_count, last_sent,
                   last_pop, ping, app, budget, timeouts, host_vars, host, wire, link_vars,
                   board_vars, codec_vars>>

\* the host receives the request the client transmitted last and answers it; the
\* answer is transmitted when the host has a peer address
JoinHostRecv ==
    /\ budget.recv > 0
    /\ last_sent.some
    /\ last_sent.to = HostAddr
    /\ last_sent.item.data.type = "Request"
    /\ \E fresh \in SessionIds :
          LET req == last_sent.item.data
              a == host_answer(req, ClientAddr, host.other_addr, "good", host.session_id,
                               host.status, fresh)
          IN /\ host' = [other_addr |-> a.other_addr, session_id |-> a.session_id,
                         status |-> a.status,
                         incoming |-> IF req.packet.kind = "GameAction"
                                      THEN Append(host.incoming, req.packet.action)
                                      ELSE host.incoming]
             /\ wire' = IF a.other_addr = NoAddr THEN wire
                        ELSE P2pResponse(a.session_id, req.transaction_id, a.packet)
    /\ budget' = [budget EXCEPT !.recv = @ - 1]
    /\ UNCHANGED <<status_vars, table, outq, pushes, called, sent_count, last_sent, last_pop,
                   ping, app, timeouts, host_vars, join, link_vars, board_vars, codec_vars>>

\* the receive task of the client takes the response in flight
JoinClientRecv ==
    /\ budget.recv > 0
    /\ wire # NoPacket
    /\ other_addr = HostAddr
    /\ LET r == set_response(table, wire.transaction_id, wire)
       IN /\ table' = r.table
          /\ called' = Invoke(called, r.invoked)
    /\ ping' = IF ping.pc = "waiting" /\ ping.id = wire.transaction_id
               THEN [ping EXCEPT !.recorded = TRUE]
               ELSE ping
    /\ wire' = NoPacket
    /\ budget' = [budget EXCEPT !.recv = @ - 1]
    /\ UNCHANGED <<status_vars, outq, pushes, app, sent_count, last_sent, last_pop, timeouts,
                   host_vars, join, host, link_vars, board_vars, codec_vars>>

(***************************************************************************)
(* SpecJoin: a client after start_lan_client.  The application thread      *)
(* joins a host, the ping task runs once the client is connected, with     *)
(* pings enough to run through the retry budget.                           *)
(***************************************************************************)
\* the datagrams a run can deliver
JoinRecvFuel == MaxRecv + 2

InitJoin ==
    /\ NetIdleBut
    /\ budget = Budget(RECONNECT_TRIES + 2, 0, JoinRecvFuel, PingDraw)
    /\ BoardIdle
    /\ CodecIdle

NextJoin ==
    \/ JoinRequest \/ JoinTick
    \/ JoinHostRecv \/ JoinClientRecv
    \/ SendIteration
    \/ PingTick \/ PingPushQueue \/ PingPushTable \/ PingWaitRead \/ PingWaitReturn
    \/ PingTimeout

SpecJoin == InitJoin /\ [][NextJoin]_vars

(***************************************************************************)
(* src/net/p2p/net_loop.rs and communicate.rs: the outgoing task with the  *)
(* result of send_p2p_packet, the link to the peer, and the Request branch *)
(* of the receive task of the client.  A datagram that was transmitted is  *)
(* in flight until the link loses it or the peer receives it; a newer      *)
(* datagram replaces one still in flight.                                  *)
(***************************************************************************)
\* one turn of the outgoing task in which send_p2p_packet returns Ok
Transmit ==
    /\ sender = "running"
    /\ other_addr # NoAddr
    /\ LET r == pop_outgoing_queue(outq)
       IN /\ outq' = r.rest
          /\ last_pop' = [some |-> r.some, len |-> Len(outq)]
          /\ IF r.some
             THEN /\ last_sent' = [some |-> TRUE, item |-> r.item, to |-> other_addr]
                  /\ sent_count' = sent_count + 1
                  /\ flight' = r.item.data
             ELSE UNCHANGED <<last_sent, sent_count, flight>>
    /\ UNCHANGED <<status_vars, table, pushes, called, ping, app, budget, timeouts,
                   host_vars, join, host, wire, sender, board_vars, codec_vars>>

\* one turn of the outgoing task in which send_p2p_packet returns Err: the
\* packet was popped, unwrap() panics and the task ends
TransmitFails ==
    /\ sender = "running"
    /\ other_addr # NoAddr
    /\ outq # <<>>
    /\ outq' = pop_outgoing_queue(outq).rest
    /\ last_pop' = [some |-> TRUE, len |-> Len(outq)]
    /\ sender' = "ended"
    /\ UNCHANGED <<status_vars, table, pushes, called, ping, app, budget, timeouts,
                   last_sent, sent_count, host_vars, join, host, wire, flight,
                   board_vars, codec_vars>>

\* the link loses the request in flight
LoseRequest ==
    /\ flight # NoPacket
    /\ flight' = NoPacket
    /\ UNCHANGED <<status_vars, table, outq, pushes, called, sent_count, last_sent, last_pop,
                   ping, app, budget, timeouts, host_vars, join, host, wire, sender,
                   board_vars, codec_vars>>

\* the link loses the response in flight
LoseResponse ==
    /\ wire # NoPacket
    /\ wire' = NoPacket
    /\ UNCHANGED <<status_vars, table, outq, pushes, called, sent_count, last_sent, last_pop,
                   ping, app, budget, timeouts, host_vars, join, host, link_vars,
                   board_vars, codec_vars>>

\* the host receives the request in flight: a GameAction is pushed on its
\* INCOMING_ACTIONS, and the answer is transmitted to its peer
PeerRecv ==
    /\ flight # NoPacket
    /\ flight.type = "Request"
    /\ LET a == host_answer(flight, ClientAddr, host.other_addr, "good", host.session_id,
                            host.status, host.session_id)
       IN /\ host' = [other_addr |-> a.other_addr, session_id |-> a.session_id,
                      status |-> a.status,
                      incoming |-> IF flight.packet.kind = "GameAction"
                                   THEN Append(host.incoming, flight.packet.action)
                                   ELSE host.incoming]
          /\ wire' = IF a.other_addr = NoAddr THEN wire
                     ELSE P2pResponse(a.session_id, flight.transaction_id, a.packet)
    /\ flight' = NoPacket
    /\ UNCHANGED <<status_vars, table, outq, pushes, called, sent_count, last_sent, last_pop,
                   ping, app, budget, timeouts, host_vars, join, sender,
                   board_vars, codec_vars>>

\* the answer of the client to a request: the match on req.packet
client_answer(req) ==
    CASE req.packet.kind = "Ping" -> Pong
      [] req.packet.kind = "GameAction" -> Acknowledge
      [] OTHER -> ErrorResponse("WrongDirection")

\* the requests the host sends to a joined client
ClientRequests ==
    {P2pRequest(7, t, p) :
        t \in RespIds, p \in {Ping, ResyncRequest, GameActionRequest(Surrender)}}

\* the receive task of the client gets a request of its host and sends the
\* response with send_p2p_packet(..).unwrap(): sent tells whether the send
\* returned Ok; on Err the task panics
ClientRecvRequest(req, sent) ==
    /\ budget.recv > 0
    /\ handled # Panicked
    /\ other_addr # NoAddr
    /\ incoming' = IF req.packet.kind = "GameAction" THEN Append(incoming, req.packet.action)
                   ELSE incoming
    /\ handled' = IF sent
                  THEN [kind |-> "Request", from |-> other_addr, req |-> req,
                        answer |-> client_answer(req), fresh |-> req.session_id,
                        resp |-> P2pResponse(req.session_id, req.transaction_id,
                                             client_answer(req))]
                  ELSE Panicked
    /\ budget' = [budget EXCEPT !.recv = @ - 1]
    /\ UNCHANGED <<status_vars, table, outq, pushes, called, sent_count, last_sent, last_pop,
                   ping, app, timeouts, elapsed, peer_silent, evicted_at, next_action,
                   join_vars,
                   board_vars, codec_vars>>

ClientAnswers == \E req \in ClientRequests : ClientRecvRequest(req, TRUE)

ClientAnswerFails == \E req \in ClientRequests : ClientRecvRequest(req, FALSE)

(***************************************************************************)
(* SpecSend: a joined client whose application thread sends game actions   *)
(* and whose sends can fail.                                               *)
(***************************************************************************)
\* the game actions sent in a run
SendActions == MaxActions + 1

InitSend ==
    /\ Joined
    /\ budget = Budget(0, SendActions, MaxRecv, MaxDraw)
    /\ BoardIdle
    /\ CodecIdle

NextSend ==
    \/ AppDraw \/ AppPushQueue \/ AppPushTable
    \/ Transmit
    \/ TransmitFails
    \/ ClientAnswers
    \/ ClientAnswerFails

SpecSend == InitSend /\ [][NextSend]_vars

(***************************************************************************)
(* SpecLossy: a joined client sends game actions to its host over a link   *)
(* that may lose any datagram.  The tasks of the client keep running (weak *)
(* fairness); the link delivers a datagram that is in flight again and     *)
(* again (strong fairness of the two receive steps).                       *)
(***************************************************************************)
\* the host of a joined client
HostJoined ==
    [other_addr |-> ClientAddr, session_id |-> 7, status |-> connected, incoming |-> <<>>]

InitLossy ==
    /\ status = connected
    /\ other_addr = HostAddr
    /\ session_id = 7
    /\ join_code = "good"
    /\ table = EmptyTable
    /\ outq = <<>>
    /\ pushes = 0
    /\ called = <<>>
    /\ sent_count = 0
    /\ last_sent = NoSent
    /\ last_pop = NoPop
    /\ ping = IdleTask
    /\ app = IdleTask
    /\ timeouts = 0
    /\ HostIdle
    /\ join = NoJoin
    /\ host = HostJoined
    /\ wire = NoPacket
    /\ flight = NoPacket
    /\ sender = "running"
    /\ budget = Budget(0, SendActions, SendActions, MaxDraw)
    /\ BoardIdle
    /\ CodecIdle

NextLossy ==
    \/ AppDraw \/ AppPushQueue \/ AppPushTable
    \/ Transmit
    \/ LoseRequest
    \/ PeerRecv
    \/ LoseResponse
    \/ JoinClientRecv

FairLossy ==
    /\ WF_vars(AppDraw)
    /\ WF_vars(AppPushQueue)
    /\ WF_vars(AppPushTable)
    /\ WF_vars(Transmit)
    /\ SF_vars(PeerRecv)
    /\ SF_vars(JoinClientRecv)

SpecLossy == InitLossy /\ [][NextLossy]_vars /\ FairLossy

(***************************************************************************)
(* src/net/p2p/queue.rs and src/net/interface.rs: INCOMING_ACTIONS and     *)
(* get_next_game_action.                                                   *)
(***************************************************************************)
\* VecDeque::pop_back instead of pop_front
pop_incoming_newest(q) ==
    IF q = <<>> THEN [some |-> FALSE, rest |-> q]
    ELSE [some |-> TRUE, item |-> q[Len(q)], rest |-> SubSeq(q, 1, Len(q) - 1)]

\* pop_incoming_gameaction: VecDeque::pop_front
pop_incoming_gameaction(q) ==
    IF q = <<>> THEN [some |-> FALSE, rest |-> q]
    ELSE [some |-> TRUE, item |-> Head(q), rest |-> Tail(q)]

\* get_next_game_action, as wait_for_opponent calls it
GetNextGameAction ==
    /\ LET r == pop_incoming_gameaction(incoming)
       IN /\ incoming' = r.rest
          /\ next_action' = IF r.some THEN [some |-> TRUE, action |-> r.item] ELSE NoAction
    /\ UNCHANGED <<status_vars, table, outq, pushes, called, sent_count, last_sent, last_pop,
                   ping, app, budget, timeouts, elapsed, peer_silent, evicted_at, handled,
                   join_vars, board_vars, codec_vars>>

(***************************************************************************)
(* SpecInbound: a peer in a session receives requests of the other peer,   *)
(* game actions of every kind among them, and its application thread takes *)
(* the actions with get_next_game_action.  The peer is a joined client     *)
(* (it has a host) or a host with a bound client (it has none).            *)
(***************************************************************************)
InboundActions ==
    {Surrender, Stalemate, GameAction_move_piece(9, 13, CapturedNone, FALSE)}

InboundRequests ==
    {P2pRequest(7, t, p) :
        t \in RespIds, p \in {Ping} \cup {GameActionRequest(a) : a \in InboundActions}}

IsClient == host = HostJoined

IsHost == host = HostStart

\* the datagrams received in a run
InboundFuel == MaxRecv + 1

InitInbound ==
    /\ status = connected
    /\ other_addr = "a1"
    /\ session_id = 7
    /\ join_code = "good"
    /\ table = EmptyTable
    /\ outq = <<>>
    /\ pushes = 0
    /\ called = <<>>
    /\ sent_count = 0
    /\ last_sent = NoSent
    /\ last_pop = NoPop
    /\ ping = IdleTask
    /\ app = IdleTask
    /\ timeouts = 0
    /\ HostIdle
    /\ join = NoJoin
    /\ host \in {HostStart, HostJoined}
    /\ wire = NoPacket
    /\ flight = NoPacket
    /\ sender = "running"
    /\ budget = Budget(0, 0, InboundFuel, MaxDraw)
    /\ BoardIdle
    /\ CodecIdle

ClientInbound == IsClient /\ \E req \in InboundRequests : ClientRecvRequest(req, TRUE)

HostInbound == IsHost /\ \E req \in InboundRequests : HostRecvRequest("a1", req, 7)

NextInbound == ClientInbound \/ HostInbound \/ GetNextGameAction

SpecInbound == InitInbound /\ [][NextInbound]_vars

(***************************************************************************)
(* SpecTwice: a joined client sends game actions to its host over a        *)
(* transport that loses nothing and may deliver a datagram more than once: *)
(* the host receives the request transmitted last once or again.           *)
(***************************************************************************)
\* the datagrams received in a run, by the host and by the client
TwiceFuel == MaxRecv + 2

InitTwice ==
    /\ status = connected
    /\ other_addr = HostAddr
    /\ session_id = 7
    /\ join_code = "good"
    /\ table = EmptyTable
    /\ outq = <<>>
    /\ pushes = 0
    /\ called = <<>>
    /\ sent_count = 0
    /\ last_sent = NoSent
    /\ last_pop = NoPop
    /\ ping = IdleTask
    /\ app = IdleTask
    /\ timeouts = 0
    /\ HostIdle
    /\ join = NoJoin
    /\ host = HostJoined
    /\ wire = NoPacket
    /\ flight = NoPacket
    /\ sender = "running"
    /\ budget = Budget(0, SendActions, TwiceFuel, MaxDraw)
    /\ BoardIdle
    /\ CodecIdle

NextTwice ==
    \/ AppDraw \/ AppPushQueue \/ AppPushTable
    \/ SendIteration
    \/ JoinHostRecv
    \/ JoinClientRecv

SpecTwice == InitTwice /\ [][NextTwice]_vars

(***************************************************************************)
(* Claims about the move engine (SpecBoard).                               *)
(***************************************************************************)
Returned(kind) == legal.kind = kind /\ ~legal.res.panic /\ ~legal.res.ub

AllCapturing(ms) ==
    \A k \in 1 .. Len(ms) : ms[k].captured.some /\ Len(ms[k].captured.list) > 0

OwnPiece(i) == pieces[i].is_active /\ pieces[i].color = player_color

\* C1: forced capture. When the piece asked for (get_legal_moves_piece) or any
\* piece of the player's colour (get_legal_moves) can capture, the returned list
\* is not empty and holds only moves with a non-empty captured list.
C1_ForcedCapture ==
    /\ (Returned("piece") /\ CaptureExistsPiece(pieces, player_color, legal.index))
          => (legal.res.some /\ legal.res.moves # <<>> /\ AllCapturing(legal.res.moves))
    /\ (Returned("all") /\ \E i \in Squares :
                              OwnPiece(i) /\ CaptureExistsPiece(pieces, player_color, i))
          => (legal.res.some /\ legal.res.moves # <<>> /\ AllCapturing(legal.res.moves))

\* get_legal_moves has answered on a board where a piece of the player can capture
\* and a piece scanned before it has only a quiet move
C1_Witness ==
    /\ Returned("all")
    /\ legal.res.moves # <<>>
    /\ \E i, j \in Squares :
          /\ j < i /\ OwnPiece(i) /\ OwnPiece(j)
          /\ CaptureExistsPiece(pieces, player_color, i)
          /\ QuietMoveExistsPiece(pieces, player_color, j)
          /\ ~CaptureExistsPiece(pieces, player_color, j)

(***************************************************************************)
(* Claims about the wire codec (SpecCodec).                                *)
(***************************************************************************)
\* C5: wire round trip. Decoding the datagram to_packet made of a request or a
\* response gives back Ok of that value: the same session id, transaction id and
\* payload fields, for MovePiece the same index, end, captured list and promoted flag.
C5_RoundTrip == decoded.kind = "done" => decoded.res = Ok(value)

\* a MovePiece request has been encoded and decoded again
C5_Witness ==
    /\ decoded.kind = "done"
    /\ value.type = "Request"
    /\ value.packet.kind = "GameAction"
    /\ value.packet.action.kind = "MovePiece"
    /\ decoded.res.ok

(***************************************************************************)
(* Claims about the transaction table and the outgoing queue of a client   *)
(* (SpecClient).                                                           *)
(***************************************************************************)
\* the response recorded for the id the ping task waits on is still in the table
C2_Kept ==
    (ping.pc = "waiting" /\ ping.recorded)
        => (ping.id \in DOMAIN table /\ table[ping.id].resp # NoPacket)

\* wait_for_response removes the entry when it returns
C2_Removed == PingWaitReturn => ping.id \notin DOMAIN table'

\* set_response for an id that is not in the table changes nothing
C2_LateIsNoOp ==
    \A id \in RespIds :
        (id \notin DOMAIN table /\ ClientRecvResponse(id, Pong))
            => (table' = table /\ called' = called)

\* C2: transaction table. When set_response(id, r) runs while wait_for_response(id)
\* waits, the response stays recorded until the waiter takes it, the waiter's return
\* removes the entry, and a set_response for an id that is no longer in the table
\* creates no entry and delivers nothing.
C2_ExactlyOnce == [][C2_Kept' /\ C2_Removed /\ C2_LateIsNoOp]_vars

\* a response was recorded for the waiting ping and the ping task has read it
C2_Witness == ping.pc = "got" /\ ping.recorded

\* C7: FIFO transmission. The queue holds the packets pushed and not yet transmitted,
\* oldest first; the k-th datagram the send task transmits is the k-th packet pushed;
\* pop_outgoing_queue returns None exactly when the queue is empty.
C7_Fifo ==
    /\ \A k \in 1 .. Len(outq) : outq[k].n = sent_count + k
    /\ last_sent.some => last_sent.item.n = sent_count
    /\ last_pop.some = (last_pop.len > 0)

\* two packets were transmitted, a pop found the queue empty, and a third is queued
C7_Witness ==
    /\ sent_count = 2
    /\ ~last_pop.some
    /\ Len(outq) = 1

\* C10: transaction-id uniqueness. The id a task drew with new_transaction_id is
\* absent from the table until that task's push_outgoing_queue registers it, so
\* registering never overwrites a live entry.
C10_Unique ==
    /\ ping.pc \in {"drawn", "queued"} => ping.id \notin DOMAIN table
    /\ app.pc \in {"drawn", "queued"} => app.id \notin DOMAIN table

\* both tasks hold an id they drew and have not registered yet
C10_Witness == ping.pc = "drawn" /\ app.pc = "drawn"

(***************************************************************************)
(* Claims about the ping task (SpecPing).                                  *)
(***************************************************************************)
\* C3 as stated: N consecutive ping timeouts, N below the retry budget, leave
\* Reconnecting{tries = N}; at the timeout that reaches the budget the status is
\* Disconnected and other_addr cleared.
C3_AsStated ==
    /\ timeouts \in 1 .. (RECONNECT_TRIES - 1) => status = Reconnecting(timeouts)
    /\ timeouts >= RECONNECT_TRIES => (status = Disconnected /\ other_addr = NoAddr)

\* C3: client connection state machine. Starting from Connected, N consecutive ping
\* timeouts with 1 <= N <= 11 leave the status at Reconnecting{tries = N - 1} and the
\* peer address set; at the 12th consecutive timeout the status becomes Disconnected
\* and other_addr is cleared.
C3_Countdown ==
    /\ timeouts = 0 => is_connected(status)
    /\ timeouts \in 1 .. (RECONNECT_TRIES + 1)
          => (status = Reconnecting(timeouts - 1) /\ other_addr # NoAddr)
    /\ timeouts >= RECONNECT_TRIES + 2 => (status = Disconnected /\ other_addr = NoAddr)

\* the ping task has run through the whole retry budget
C3_Witness == timeouts = RECONNECT_TRIES + 2 /\ status = Disconnected

(***************************************************************************)
(* Claims about the host (SpecHost, SpecEvict).                            *)
(***************************************************************************)
ConnectHandled == handled.kind = "Request" /\ handled.req.packet.kind = "Connect"

\* C4: join handshake. A Connect request with a wrong join code is answered with
\* Error{InvalidJoinCode}, whether or not a peer is bound, and that answer is
\* transmitted to the address the request came from.
C4_WrongJoinCode ==
    /\ (ConnectHandled /\ handled.req.packet.join_code # join_code)
          => handled.answer = ErrorResponse("InvalidJoinCode")
    /\ (/\ last_sent.some
        /\ last_sent.item.data.type = "Response"
        /\ last_sent.item.data.packet = ErrorResponse("InvalidJoinCode"))
          => last_sent.to = last_sent.item.origin

\* a Connect with a wrong join code was handled while a peer was bound
C4_Witness ==
    /\ ConnectHandled
    /\ handled.req.packet.join_code # join_code
    /\ other_addr # NoAddr

\* C6: at-most-once delivery. The callback of a send_game_action call runs at most
\* once however often the response arrives, and once it ran no table entry holds it.
C6_AtMostOnce ==
    \A c \in 1 .. Len(called) :
        /\ called[c].n <= 1
        /\ called[c].n = 1 => \A id \in DOMAIN table : table[id].closure # c

\* the callback ran, and a later response with the same transaction id was dropped
C6_Witness ==
    /\ Len(called) >= 1
    /\ called[1].n = 1
    /\ handled.kind = "Response"
    /\ handled.id = called[1].id
    /\ handled.invoked = NoClosure
    /\ handled.id \notin DOMAIN table

\* the error kinds whose condition a Connect request fails
FailedKinds(req) ==
    (IF other_addr # NoAddr THEN {"FullGameSession"} ELSE {}) \cup
    (IF req.packet.join_code # join_code THEN {"InvalidJoinCode"} ELSE {}) \cup
    (IF req.session_id # CONNECT_SESSION_ID THEN {"InvalidSessionId"} ELSE {})

C9_Step ==
    (/\ budget'.recv < budget.recv
     /\ handled'.kind = "Request"
     /\ handled'.req.packet.kind = "Connect")
    => LET req == handled'.req
           answer == outq'[Len(outq')].data.packet
       IN IF FailedKinds(req) = {}
          THEN /\ answer.kind = "Connect"
               /\ session_id' = handled'.fresh
               /\ other_addr' = handled'.from
               /\ status' = connected
          ELSE /\ answer.kind = "Error"
               /\ answer.err \in FailedKinds(req)
               /\ UNCHANGED <<session_id, other_addr, status>>

\* C9: host Connect validation. A Connect request is accepted iff no peer is bound,
\* its join code is the host's and its session id is the sentinel; acceptance sets
\* the session id to the value drawn, other_addr to the sender and the status to
\* Connected; a rejected Connect leaves the three unchanged and is answered with the
\* error of a condition it fails.
C9_ConnectValidation == [][C9_Step]_vars

\* a Connect was accepted and the sender is the bound peer
C9_Witness ==
    /\ ConnectHandled
    /\ handled.answer.kind = "Connect"
    /\ other_addr = handled.from
    /\ status = connected

\* C8: host eviction. A bound peer has sent a datagram within the disconnect window
\* (else it has been removed, whatever other addresses sent), and a peer is removed
\* only after it was silent for the whole window.
C8_Eviction ==
    /\ other_addr # NoAddr => peer_silent < DisconnectTicks
    /\ evicted_at # -1 => evicted_at >= DisconnectTicks

\* the peer was removed after a silent window
C8_Witness == evicted_at = DisconnectTicks /\ other_addr = NoAddr

(***************************************************************************)
(* Claims about the moves the engine returns, SpecBoard.                   *)
(***************************************************************************)
\* the engine returned a list of moves for a query
ReturnedMoves == legal.kind \in {"piece", "all"} /\ legal.res.some

\* the piece of move m is of the local player's colour
Own(m) == pieces[m.index].color = player_color

\* C11: a non-king piece never generates a backward move. Every returned move of
\* a piece that is not a king is either a single diagonal step forward (up for
\* a piece of the player's colour, down for one of the other colour) or a chain
\* of jumps none of which goes backward before a landing square of the chain
\* reached the back rank.
C11_NoBackwardMove ==
    ReturnedMoves =>
       \A k \in 1 .. Len(legal.res.moves) :
          LET m == legal.res.moves[k]
              chain == ChainOf(pieces, player_color, m.index, m)
          IN ~pieces[m.index].is_king =>
                IF m.captured.some
                THEN chain.ok /\ ~chain.back
                ELSE /\ OnDiagonal(m.index, m.end)
                     /\ Dist(m.index, m.end) = 1
                     /\ ~Backward(Own(m), m.index, m.end)

\* a man reached the back rank in the middle of a chain and left it again with a
\* later jump of the same chain
C11_Witness ==
    /\ ReturnedMoves
    /\ \E k \in 1 .. Len(legal.res.moves) :
          LET m == legal.res.moves[k]
              chain == ChainOf(pieces, player_color, m.index, m)
          IN /\ ~pieces[m.index].is_king
             /\ m.captured.some
             /\ chain.ok /\ chain.rank
             /\ ~BackRank(Own(m), m.end)

\* C12: capture chains. The captured list of every returned capturing move is
\* the list of the pieces of one chain of jumps made from the square of the
\* piece on the queried board: each an active enemy piece, no square twice,
\* each jumped onto the empty square behind it, as a king once a landing square
\* was on the back rank. The move ends on the last landing square, no further
\* jump is possible from there, and promoted is true exactly when some landing
\* square of the chain lies on the back rank.
C12_Chains ==
    ReturnedMoves =>
       \A k \in 1 .. Len(legal.res.moves) :
          LET m == legal.res.moves[k]
              chain == ChainOf(pieces, player_color, m.index, m)
          IN m.captured.some =>
                /\ Len(m.captured.list) > 0
                /\ chain.ok
                /\ chain.end = m.end
                /\ ~chain.more
                /\ m.promoted = chain.rank

\* a man jumped three pieces, reaching the back rank before the last jump
C12_Witness ==
    /\ ReturnedMoves
    /\ \E k \in 1 .. Len(legal.res.moves) :
          LET m == legal.res.moves[k]
              chain == ChainOf(pieces, player_color, m.index, m)
          IN /\ m.captured.some
             /\ Len(m.captured.list) = 3
             /\ ~pieces[m.index].is_king
             /\ chain.ok /\ chain.end = m.end
             /\ m.promoted /\ ~BackRank(Own(m), m.end)

\* get_legal_moves was called on the opening position
OpeningQueried == Returned("all") /\ pieces = default_setup(player_color)

\* the squares of the player's front row and of the row above it
FrontRow == 20 .. 23

RowFour == 16 .. 19

\* the pairs (square, destination) of a list of moves
Steps(ms) == {<<ms[k].index, ms[k].end>> : k \in 1 .. Len(ms)}

\* the returned moves are quiet moves of front-row pieces onto empty squares of
\* row 4, one diagonal step away
OpeningAdvances ==
    /\ legal.res.some
    /\ \A k \in 1 .. Len(legal.res.moves) :
          LET m == legal.res.moves[k]
          IN /\ ~m.captured.some /\ ~m.promoted
             /\ m.index \in FrontRow /\ m.end \in RowFour
             /\ ~pieces[m.end].is_active
             /\ OnDiagonal(m.index, m.end) /\ Dist(m.index, m.end) = 1
    /\ \A f \in FrontRow : \A e \in RowFour :
          (OnDiagonal(f, e) /\ Dist(f, e) = 1) => <<f, e>> \in Steps(legal.res.moves)
    /\ Cardinality(Steps(legal.res.moves)) = Len(legal.res.moves)

\* the number of destinations returned for the piece on square f
Destinations(f) == Cardinality({s \in Steps(legal.res.moves) : s[1] = f})

\* C13 as stated: in the opening position get_legal_moves returns exactly the
\* single-step advances of the front row into row 4, and each of the four
\* front pieces has exactly two destinations.
C13_AsStated ==
    OpeningQueried => (OpeningAdvances /\ \A f \in FrontRow : Destinations(f) = 2)

\* C13: in the opening position get_legal_moves returns exactly the
\* single-step diagonal advances of the front row (squares 20..23) into row 4
\* (squares 16..19), with no captures and none onto an occupied or off-board
\* square; the pieces on 20, 21 and 22 have exactly two destinations each and
\* the piece on 23, on the right edge, exactly one (square 19).
C13_Opening ==
    OpeningQueried =>
       /\ OpeningAdvances
       /\ \A f \in 20 .. 22 : Destinations(f) = 2
       /\ Steps(legal.res.moves) \cap ({23} \X Squares) = {<<23, 19>>}

\* the opening position was queried and seven moves came back
C13_Witness == OpeningQueried /\ legal.res.some /\ Len(legal.res.moves) = 7

\* C14: promotion. A returned move has promoted = TRUE when a landing square of
\* the move lies on the opponent's home rank for the colour of the piece
\* (squares 0..3 for a piece of the player's colour, 28..31 for a piece of the
\* other colour) and promoted = FALSE when none does.
C14_Promotion ==
    ReturnedMoves =>
       \A k \in 1 .. Len(legal.res.moves) :
          LET m == legal.res.moves[k]
              chain == ChainOf(pieces, player_color, m.index, m)
          IN m.promoted = IF m.captured.some THEN chain.rank
                          ELSE BackRank(Own(m), m.end)

\* a piece of the other colour steps onto square 28 and the move is not a
\* promotion
C14_Witness ==
    /\ ReturnedMoves
    /\ \E k \in 1 .. Len(legal.res.moves) :
          LET m == legal.res.moves[k]
          IN ~Own(m) /\ m.end = 28 /\ ~m.captured.some /\ ~m.promoted

\* the move a move_piece step applied
Applied == legal.res.moves[1]

\* C15: board invariant. Every step of start_new_game or move_piece leaves a
\* board of exactly 32 slots; a move_piece step does not increase the number of
\* active pieces of either colour, and every square in the captured list of
\* the move is inactive after the step.
C15_BoardInvariant ==
    [][legal'.kind \in {"new", "moved"} =>
          /\ DOMAIN pieces' = 0 .. 31
          /\ legal'.kind = "moved" =>
                /\ get_player_piece_count(pieces', player_color)
                      <= get_player_piece_count(pieces, player_color)
                /\ get_enemy_piece_count(pieces', player_color)
                      <= get_enemy_piece_count(pieces, player_color)
                /\ legal'.res.moves[1].captured.some =>
                      \A k \in 1 .. Len(legal'.res.moves[1].captured.list) :
                         ~pieces'[legal'.res.moves[1].captured.list[k]].is_active]_vars

\* a move that captured two pieces was applied: both squares are empty and one
\* piece, the one that moved, is left
C15_Witness ==
    /\ legal.kind = "moved"
    /\ Applied.captured.some
    /\ Len(Applied.captured.list) = 2
    /\ \A k \in 1 .. 2 : ~pieces[Applied.captured.list[k]].is_active
    /\ pieces[Applied.end].is_active
    /\ get_player_piece_count(pieces, player_color)
          + get_enemy_piece_count(pieces, player_color) = 1

(***************************************************************************)
(* Claims about the status machine of the client, SpecPing.                *)
(***************************************************************************)
\* the pings a run of SpecPing can start
PingFuel == RECONNECT_TRIES + 2 + MaxPings

\* the step in which wait_for_response returns to the ping task
PingReturns == ping.pc = "got" /\ ping'.pc = "idle" /\ timeouts' = 0

\* the step in which the request timeout of the ping task fires
PingTimesOut == ping.pc \in {"waiting", "got"} /\ timeouts' = timeouts + 1

\* C16: reconnect recovery. When the response to the current ping is returned
\* to the ping task the status becomes Connected with the measured round-trip
\* time as its ping, from Reconnecting{tries} with any tries as from Connected;
\* and a timeout that finds the status Connected sets Reconnecting with the
\* initial tries of 0, whatever the tries were before the recovery.
C16_Recovery ==
    [][/\ PingReturns => status' = Connected(ping.rtt)
       /\ (PingTimesOut /\ is_connected(status)) => status' = Reconnecting(0)]_vars

\* two pings timed out (Reconnecting{tries: 1}), the third was answered and the
\* fourth timed out: the status is Reconnecting{tries: 0} again
C16_Witness ==
    /\ status = Reconnecting(0)
    /\ timeouts = 1
    /\ ping.pc = "idle"
    /\ budget.ping = PingFuel - 4
    /\ Cardinality(DOMAIN table) = 3

(***************************************************************************)
(* Claims about the join handshake, SpecJoin.                              *)
(***************************************************************************)
\* the step is a call of send_join_request
JoinRequested == join'.sent = join.sent + 1

Statuses ==
    {Disconnected, PendingConnection}
       \cup {Reconnecting(t) : t \in 0 .. RECONNECT_TRIES}
       \cup {Connected(p) : p \in 0 .. MaxRtt}

\* the step pushes a GameAction request on the outgoing queue
PayloadEnqueued ==
    /\ pushes' = pushes + 1
    /\ outq'[Len(outq')].data.type = "Request"
    /\ outq'[Len(outq')].data.packet.kind = "GameAction"

\* C18: can_send() is false exactly for Disconnected and true for
\* PendingConnection, every Reconnecting{tries} and every Connected{ping}; and
\* no payload packet is put on the outgoing queue while the status is
\* Disconnected.
C18_CanSend ==
    [][/\ \A st \in Statuses : can_send(st) = (st # Disconnected)
       /\ PayloadEnqueued => status # Disconnected]_vars

\* a game action is on the outgoing queue of a process whose status is
\* Disconnected
C18_Witness ==
    /\ status = Disconnected
    /\ ~can_send(status)
    /\ \E k \in 1 .. Len(outq) :
          outq[k].data.type = "Request" /\ outq[k].data.packet.kind = "GameAction"

(***************************************************************************)
(* Claims about the join loop and the session id, SpecJoin.                *)
(***************************************************************************)
\* the response stored for the join request the loop is polling for, if any
JoinResponse ==
    IF join.id \in DOMAIN table THEN table[join.id].resp ELSE NoPacket

\* C19 as stated: the join loop gives up with a failure after a fixed number of
\* attempts, here MaxJoins; after the last check of the last attempt it has
\* returned.
C19_AsStated == (join.sent = MaxJoins /\ join.ticks = JOIN_TICKS) => join.pc = "err"

\* C19: the join loop. connect_to_host_loop sends a Connect request tagged with
\* the sentinel session id and sends a new one after every JOIN_TICKS checks
\* that found no response; it returns success when it reads a Connect response
\* to its latest request (the status is then Connected), returns a failure
\* when it reads any other response to it, and while no response to its latest
\* request is stored it keeps polling: it never gives up on its own.
C19_JoinLoop ==
    [][/\ JoinRequested =>
             /\ outq'[Len(outq')].data.type = "Request"
             /\ outq'[Len(outq')].data.packet.kind = "Connect"
             /\ outq'[Len(outq')].data.session_id = CONNECT_SESSION_ID
             /\ join.pc = "polling" => join.ticks = JOIN_TICKS
       /\ (join.pc = "polling" /\ join'.pc = "ok") =>
             /\ JoinResponse # NoPacket
             /\ JoinResponse.packet.kind = "Connect"
             /\ is_connected(status')
       /\ (join.pc = "polling" /\ join'.pc = "err") =>
             /\ JoinResponse # NoPacket
             /\ JoinResponse.packet.kind # "Connect"
       /\ (join.pc = "polling" /\ JoinResponse = NoPacket) => join'.pc = "polling"]_vars

\* no datagram was delivered, the loop has made MaxJoins attempts of JOIN_TICKS
\* checks each and is still in its loop
C19_Witness ==
    /\ join.pc = "polling"
    /\ join.sent = MaxJoins
    /\ join.ticks = JOIN_TICKS
    /\ budget.recv = JoinRecvFuel
    /\ status = PendingConnection

\* the requests waiting in the outgoing queue
QueuedRequests ==
    {outq[i].data : i \in {j \in 1 .. Len(outq) : outq[j].data.type = "Request"}}

\* the client is Connected only after connect_to_host_loop returned success
C20_OnlyAfterSuccess == is_connected(status) => join.pc = "ok"

\* once joined, the client holds the session id of the host
C20_SameId == join.pc = "ok" => session_id = host.session_id

\* the session id of a joined client is not the sentinel
C20_NotSentinel == join.pc = "ok" => session_id # CONNECT_SESSION_ID

\* before the first success every request of the client carries the sentinel
C20_SentinelBefore ==
    (join.sent = 1 /\ join.pc = "polling")
        => \A r \in QueuedRequests : r.session_id = CONNECT_SESSION_ID

\* C20: session id agreement. The client is Connected only after it consumed a
\* success Connect response to its own join request; from then on its session
\* id is the session id of the host and is not the sentinel; before that every
\* request of the client carries the sentinel.
C20_Agreement ==
    /\ C20_OnlyAfterSuccess
    /\ C20_SameId
    /\ C20_NotSentinel
    /\ C20_SentinelBefore

\* the host drew the sentinel for the session and the client joined it
C20_Witness ==
    /\ join.pc = "ok"
    /\ is_connected(status)
    /\ host.other_addr = ClientAddr
    /\ session_id = host.session_id
    /\ session_id = CONNECT_SESSION_ID

(***************************************************************************)
(* Claims about start_new_game, SpecBoard.                                 *)
(***************************************************************************)
\* the squares of ps that hold an active man of colour c
MenOf(ps, c) ==
    {i \in DOMAIN ps : ps[i].is_active /\ ~ps[i].is_king /\ ps[i].color = c}

\* the squares of ps that hold an active piece
ActiveSquares(ps) == {i \in DOMAIN ps : ps[i].is_active}

\* C27: start_new_game(color) leaves a board of 32 slots with exactly 12 active
\* men of the opposite colour on squares 0..11, the 8 squares 12..19 empty and
\* exactly 12 active men of the given colour on squares 20..31, and the local
\* player's colour is the given colour, whatever the board held before.
C27_NewGame ==
    [][legal'.kind = "new" =>
          /\ DOMAIN pieces' = 0 .. 31
          /\ MenOf(pieces', get_opposite(legal'.color)) = 0 .. 11
          /\ MenOf(pieces', legal'.color) = 20 .. 31
          /\ ActiveSquares(pieces') = (0 .. 11) \cup (20 .. 31)
          /\ Cardinality(MenOf(pieces', legal'.color)) = 12
          /\ Cardinality(MenOf(pieces', get_opposite(legal'.color))) = 12
          /\ player_color' = legal'.color]_vars

\* a new game for Black: Black on squares 20..31
C27_Witness ==
    /\ legal.kind = "new"
    /\ legal.color = "Black"
    /\ player_color = "Black"
    /\ pieces[31].color = "Black"
    /\ pieces[0].color = "White"
    /\ ~pieces[12].is_active

(***************************************************************************)
(* Claims about the packing of a piece, SpecPiece.                         *)
(***************************************************************************)
\* the colour bits of a byte that are set
ColourBits(b) == Bit(b, 0) + Bit(b, 1)

\* the byte of a packed piece: 0 for an empty square, else one colour bit and
\* the king bit iff is_king
C25_Packed ==
    (value.kind = "Piece" /\ bytes # <<>>) =>
        IF value.piece.is_active
        THEN /\ bytes[1] # 0
             /\ ColourBits(bytes[1]) = 1
             /\ (Bit(bytes[1], 2) = 1) <=> value.piece.is_king
        ELSE bytes[1] = 0

\* unpacking the byte of a piece gives the piece back
C25_Unpacked ==
    (value.kind = "Piece" /\ decoded.kind = "done") =>
        /\ decoded.res.ok
        /\ decoded.res.value.is_active = value.piece.is_active
        /\ value.piece.is_active => decoded.res.value.color = value.piece.color
        /\ decoded.res.value.is_king = value.piece.is_king

\* a byte that is not 0 and has no or two colour bits is rejected
C25_Rejected ==
    (value.kind = "Byte" /\ decoded.kind = "done"
        /\ value.byte # 0 /\ ColourBits(value.byte) # 1) => ~decoded.res.ok

\* C25: piece packing. An empty square is packed into byte 0, an active piece
\* into a byte that is not 0, has exactly one colour bit set and has the king
\* bit (bit 2) set iff the piece is a king; unpacking the byte of a piece gives
\* a piece with the same is_active, the same colour when active and the same
\* is_king; a byte that is not 0 and has no or two colour bits is rejected.
C25_PiecePacking ==
    /\ C25_Packed
    /\ C25_Unpacked
    /\ C25_Rejected

\* an active white king was packed into byte 0 and unpacked as an empty square
C25_Witness ==
    /\ value.kind = "Piece"
    /\ value.piece = King("White")
    /\ bytes = <<0>>
    /\ decoded.kind = "done"
    /\ decoded.res.ok
    /\ ~decoded.res.value.is_active

(***************************************************************************)
(* Claims about Resync, SpecHost.                                          *)
(***************************************************************************)
\* the host handled a Resync request
ResyncHandled == handled.kind = "Request" /\ handled.req.packet.kind = "Resync"

\* Board.pieces as the Vec<PieceData> of a Resync response
BoardVec(ps) == [k \in 1 .. BoardLen |-> ps[k - 1]]

\* C26: Resync. The host answers a Resync request with a Resync response that
\* carries its current board as exactly 32 packed piece bytes, one per square
\* in index order, and the client decodes that response into the same 32
\* pieces.
C26_Resync ==
    ResyncHandled =>
        /\ handled.answer.kind = "Resync"
        /\ handled.answer.board = BoardVec(pieces)
        /\ LET packet == P2pResponsePacket_to_packet(handled.answer)
               back == P2pResponsePacket_from_packet(packet)
           IN /\ Len(packet) = 1 + BoardLen
              /\ \A k \in 1 .. BoardLen : packet[1 + k] = PieceData_to_u8(pieces[k - 1])
              /\ back.ok
              /\ back.value = ResyncResponse(BoardVec(pieces))

\* the host answered a Resync request of its peer with a board of no square
C26_Witness ==
    /\ ResyncHandled
    /\ handled.from = other_addr
    /\ handled.answer = ResyncResponse(<<>>)
    /\ Len(outq) > 0
    /\ outq[Len(outq)].data.packet = ResyncResponse(<<>>)

(***************************************************************************)
(* Claims about the bounds of the move engine, SpecBoard.                  *)
(***************************************************************************)
\* a call of get_legal_moves_piece returned
PieceQueried == legal.kind = "piece"

\* every square a returned move names is on the board
MovesOnBoard(ms) ==
    \A k \in 1 .. Len(ms) :
       /\ ms[k].index \in Squares
       /\ ms[k].end \in Squares
       /\ ms[k].captured.some =>
             \A j \in 1 .. Len(ms[k].captured.list) : ms[k].captured.list[j] \in Squares

\* C28: move generation stays on the board. For every board of 32 slots and
\* every square 0..31, get_legal_moves_piece completes without a contract
\* violation; it returns None for an empty square, and every index, end and
\* captured square of the moves it returns lies in 0..31, pieces and kings
\* on the rows 0..3 and 28..31 included.
C28_OnBoard ==
    PieceQueried =>
        /\ ~legal.res.panic
        /\ ~legal.res.ub
        /\ ~pieces[legal.index].is_active => legal.res = NoMoves
        /\ MovesOnBoard(legal.res.moves)

\* the moves of a king on square 28 were asked for and the call read
\* pieces[32]
C28_Witness ==
    /\ PieceQueried
    /\ legal.index = 28
    /\ pieces[28] = King("White")
    /\ legal.res.panic

(***************************************************************************)
(* Claims about the decoding of datagrams, SpecDecode.                     *)
(***************************************************************************)
\* the shared state of the network loop
SharedState ==
    <<status_vars, table, outq, pushes, called, incoming, board_vars>>

\* the receive task drops a datagram it cannot decode and leaves the shared
\* state as it is
C22_DropLeavesState ==
    [][handled' = Dropped => SharedState' = SharedState]_vars

\* C22: decoder totality. Decoding any byte sequence, the empty datagram, a
\* frame with an unknown frame, payload or game action kind and a frame cut
\* short included, yields an error value and does not abort; the receive task
\* that got the datagram drops it and keeps running.
C22_DecoderTotal ==
    /\ decoded.kind = "done" => ~decoded.res.panic
    /\ (decoded.kind = "done" /\ ~decoded.res.ok) => handled = Dropped
    /\ handled # Panicked

\* the empty datagram arrived: from_packet read packet[0] and the receive task
\* has ended
C22_Witness ==
    /\ bytes = <<>>
    /\ decoded.kind = "done"
    /\ decoded.res.panic
    /\ handled = Panicked

(***************************************************************************)
(* Claims about requests outside the session, SpecHost.                    *)
(***************************************************************************)
\* the step is the handling of a request by the receive task of the host
RequestHandled == budget'.recv # budget.recv /\ handled'.kind = "Request"

\* the request handled in the step does not carry the session id of the host, or
\* does not come from the bound peer
OutsideSession ==
    \/ handled'.req.session_id # session_id
    \/ handled'.from # other_addr

\* C23: stale session id. The host answers a Ping, Resync or GameAction request
\* that does not carry its current session id, or that comes from another
\* address than the bound peer, with an Error response, and it does not put
\* such a GameAction in the inbound action queue.
C23_StaleSession ==
    [][(/\ RequestHandled
        /\ handled'.req.packet.kind \in {"Ping", "Resync", "GameAction"}
        /\ OutsideSession)
          => /\ handled'.answer.kind = "Error"
             /\ incoming' = incoming]_vars

\* a peer is bound in session 7 and a GameAction request from another address,
\* carrying the sentinel, was acknowledged and put in the inbound queue
C23_Witness ==
    /\ other_addr = "a1"
    /\ session_id = 7
    /\ handled.kind = "Request"
    /\ handled.from = "a2"
    /\ handled.req.session_id = CONNECT_SESSION_ID
    /\ handled.req.packet = GameActionRequest(Surrender)
    /\ handled.answer = Acknowledge
    /\ Len(incoming) > 0
    /\ incoming[Len(incoming)] = Surrender

(***************************************************************************)
(* Claims about the routing of responses, SpecHost.                        *)
(***************************************************************************)
\* the outgoing task transmitted a response
ResponseSent == last_sent.some /\ last_sent.item.data.type = "Response"

\* C29: response routing on the host. Every response the host produces is
\* transmitted to the address that sent the request it answers: never to
\* another peer, and never after waiting in the outgoing queue until a later
\* peer is bound, to that peer.
C29_Routing == ResponseSent => last_sent.to = last_sent.item.origin

\* the Pong for a ping of a2 was transmitted to a1, the peer bound since
C29_Witness ==
    /\ ResponseSent
    /\ last_sent.item.origin = "a2"
    /\ last_sent.item.data.packet = Pong
    /\ last_sent.to = "a1"
    /\ other_addr = "a1"

(***************************************************************************)
(* Claims about the table entries of responses, SpecHost.                  *)
(***************************************************************************)
\* the entry of id belongs to a send_game_action call of this process whose
\* callback has not run
OwnUnresolved(id) ==
    /\ table[id].closure \in 1 .. Len(called)
    /\ called[table[id].closure].id = id
    /\ called[table[id].closure].n = 0

\* C30: the transaction table holds only ids of requests this process enqueued
\* and has not resolved. Enqueueing a Response with push_outgoing_queue creates
\* no table entry and does not replace the entry, and the callback, of a
\* request of this process that has the same transaction id.
C30_OwnRequests == \A id \in DOMAIN table : OwnUnresolved(id)

\* send_game_action registered a callback under an id, a request of the peer
\* with the same id was answered, and the entry now holds no callback though
\* the callback never ran
C30_Witness ==
    /\ Len(called) >= 1
    /\ called[1].n = 0
    /\ app.pc = "idle"
    /\ handled.kind = "Request"
    /\ handled.req.transaction_id = called[1].id
    /\ called[1].id \in DOMAIN table
    /\ table[called[1].id].closure = NoClosure

(***************************************************************************)
(* Claims about lost datagrams, SpecLossy.                                 *)
(***************************************************************************)
\* C21: packet-loss tolerance for moves. Over a link that may lose datagrams
\* but delivers again and again, every GameAction passed to send_game_action
\* while the connection is up is eventually in the inbound action queue of
\* the peer; the loss of a request datagram does not leave both peers
\* waiting for each other forever.
C21_Delivered ==
    \A k \in 1 .. SendActions : (Len(called) >= k) ~> (Len(host.incoming) >= k)

\* no request is transmitted a second time: the datagrams transmitted are never
\* more than the send_game_action calls
C21_SentOnce == sent_count <= Len(called)

\* the request of every game action was transmitted once and lost: nothing is
\* in flight or queued, the callbacks wait in the table and the inbound queue
\* of the host is empty
C21_Witness ==
    /\ Len(called) = SendActions
    /\ sent_count = SendActions
    /\ app.pc = "idle"
    /\ outq = <<>>
    /\ flight = NoPacket
    /\ wire = NoPacket
    /\ host.incoming = <<>>
    /\ \A c \in 1 .. SendActions :
          /\ called[c].n = 0
          /\ called[c].id \in DOMAIN table
          /\ table[called[c].id].closure = c

(***************************************************************************)
(* Claims about failed sends, SpecSend.                                    *)
(***************************************************************************)
\* C24: transport errors are recoverable. A send that fails in the outgoing
\* task, or in the direct send of a response by the receive task of the
\* client, does not end the task: the loop keeps dequeuing and transmitting
\* later packets.
C24_Recoverable ==
    /\ sender = "running"
    /\ handled # Panicked

\* a send of the outgoing task failed: the task has ended and a later packet
\* stays in the queue
C24_Witness ==
    /\ sender = "ended"
    /\ last_pop.some
    /\ Len(outq) > 0
    /\ outq[1].data.packet = GameActionRequest(Surrender)

(***************************************************************************)
(* Claims about the order of the two steps of push_outgoing_queue,         *)
(* SpecLossy.                                                              *)
(***************************************************************************)
\* the receive task of the client handles the response in flight
ResponseHandled == wire # NoPacket /\ wire' = NoPacket /\ budget'.recv # budget.recv

\* the send_game_action calls whose callback has not run and whose request has
\* the transaction id `id`
Pending(id) == {c \in 1 .. Len(called) : called[c].id = id /\ called[c].n = 0}

\* the table entry of a request is there while the request can be dequeued
C31_EntryFirst ==
    \A i \in 1 .. Len(outq) : outq[i].id \in DOMAIN table

\* C31: no response is lost to an enqueue race. The table entry of a request
\* (with its callback) is visible no later than the request can be dequeued
\* by the outgoing task, so a response that arrives right after the
\* transmission finds its entry and is recorded: the callback of the call it
\* answers runs.
C31_NoLostResponse ==
    [][ResponseHandled =>
           \A c \in Pending(wire.transaction_id) : called'[c].n = 1]_vars

\* the request of the first call was transmitted and received by the host and
\* its response handled by the receive task of the client, all before the
\* application thread inserted the table entry: the callback has not run
C31_Witness ==
    /\ app.pc = "queued"
    /\ Len(called) = 1
    /\ called[1].n = 0
    /\ app.id \notin DOMAIN table
    /\ Len(host.incoming) = 1
    /\ wire = NoPacket
    /\ budget.recv = SendActions - 1

(***************************************************************************)
(* Claims about the length of capture chains, SpecBoard.                   *)
(***************************************************************************)
\* the jumps of move a are the first jumps of move b, which goes on after them:
\* the captured list of a is a proper tail of the captured list of b
StopsShortOf(a, b) ==
    /\ a.captured.some /\ b.captured.some
    /\ a.index = b.index
    /\ Len(a.captured.list) < Len(b.captured.list)
    /\ \A i \in 1 .. Len(a.captured.list) :
          a.captured.list[i] =
              b.captured.list[Len(b.captured.list) - Len(a.captured.list) + i]

\* C32: maximal capture chains. A capturing move that stops on a landing
\* square from which the same piece could capture once more (in a direction
\* allowed to it, the pieces it jumped taken off the board) is not returned:
\* no returned capture can be continued from its last square, and none is
\* the beginning of another returned capture.
C32_MaximalChains ==
    ReturnedMoves =>
       \A k \in 1 .. Len(legal.res.moves) :
          LET m == legal.res.moves[k]
              chain == ChainOf(pieces, player_color, m.index, m)
          IN m.captured.some =>
                /\ chain.ok /\ ~chain.more
                /\ \A j \in 1 .. Len(legal.res.moves) :
                      ~StopsShortOf(m, legal.res.moves[j])

\* a piece with two enemy pieces in a row to jump: the query returned the
\* capture of both, and the capture of the first alone would be a chain of the
\* board that can be continued
C32_Witness ==
    /\ ReturnedMoves
    /\ \E k \in 1 .. Len(legal.res.moves) :
          LET m == legal.res.moves[k]
              first == [m EXCEPT !.captured.list = <<m.captured.list[Len(m.captured.list)]>>]
              short == ChainOf(pieces, player_color, m.index, first)
          IN /\ m.captured.some
             /\ Len(m.captured.list) >= 2
             /\ short.ok /\ short.more
             /\ \A j \in 1 .. Len(legal.res.moves) :
                   Len(legal.res.moves[j].captured.list) >= 2

(***************************************************************************)
(* Claims about received requests, SpecInbound.                            *)
(***************************************************************************)
\* the receive task handled a GameAction request in the step
ActionHandled ==
    /\ budget'.recv # budget.recv
    /\ handled'.kind = "Request"
    /\ handled'.req.packet.kind = "GameAction"

\* get_next_game_action was called in the step
ActionTaken == budget'.recv = budget.recv /\ handled' = handled

\* C33: inbound game actions. Every GameAction request the receive task of a
\* peer handles is appended to the inbound action queue of the peer and
\* answered with Acknowledge; get_next_game_action returns the queued actions
\* in the order they were received, each once (the oldest one, which leaves
\* the queue), and None when the queue is empty.
C33_Inbound ==
    [][/\ ActionHandled =>
             /\ incoming' = Append(incoming, handled'.req.packet.action)
             /\ handled'.answer = Acknowledge
             /\ handled'.resp.packet = Acknowledge
             /\ next_action' = next_action
       /\ ActionTaken =>
             IF incoming = <<>>
             THEN next_action' = NoAction /\ incoming' = incoming
             ELSE /\ next_action' = [some |-> TRUE, action |-> incoming[1]]
                  /\ incoming' = Tail(incoming)]_vars

\* two different actions were received and queued in that order; the first
\* has been taken by get_next_game_action and the second is next
C33_Witness ==
    /\ next_action = [some |-> TRUE, action |-> Surrender]
    /\ incoming = <<GameAction_move_piece(9, 13, CapturedNone, FALSE)>>
    /\ handled.kind = "Request"
    /\ handled.answer = Acknowledge
    /\ budget.recv = InboundFuel - 2

\* a transaction table that holds a pending request without callback under
\* every id the transport delivers
PendingAll == [id \in RespIds |-> Entry(NoPacket, NoClosure)]

\* C34: every response carries the transaction id of the request it answers,
\* on the host and on the client: a Ping is answered with Pong and a
\* GameAction with Acknowledge under the id of the request, the host enqueues
\* exactly that response, and set_response records it under the entry of that
\* id and leaves the entries of the other ids alone.
C34_ResponseId ==
    [][(budget'.recv # budget.recv /\ handled'.kind = "Request") =>
          LET req == handled'.req
              resp == handled'.resp
              recorded == set_response(PendingAll, resp.transaction_id, resp).table
          IN /\ resp.type = "Response"
             /\ resp.transaction_id = req.transaction_id
             /\ req.packet.kind = "Ping" => resp.packet = Pong
             /\ req.packet.kind = "GameAction" => resp.packet = Acknowledge
             /\ IsHost => outq' = Append(outq, QueueItem(resp, pushes', "a1"))
             /\ recorded[req.transaction_id].resp = resp
             /\ \A id \in RespIds \ {req.transaction_id} : recorded[id] = PendingAll[id]]_vars

\* a host answered a Ping with id 1 after a GameAction with id 0: the two
\* responses are queued in that order, each under the id of its request
C34_Witness ==
    /\ IsHost
    /\ Len(outq) = 2
    /\ outq[1].data = P2pResponse(7, 0, Acknowledge)
    /\ outq[2].data = P2pResponse(7, 1, Pong)
    /\ handled.req = P2pRequest(7, 1, Ping)
    /\ handled.resp = outq[2].data

(***************************************************************************)
(* Claims about the boards of the two peers, SpecBoard.  The board of the  *)
(* peer is the mirror image of the local board before a move; the move is  *)
(* sent as GameAction::MovePiece and the peer applies what it decodes,     *)
(* reversed.                                                               *)
(***************************************************************************)
Mirror(ps) == [i \in Squares |-> ps[31 - i]]

\* the action the peer decodes from the datagram of move m; promoted is the flag
\* of the decoded move
Received(m, promoted) ==
    GameAction_from_packet(
        GameAction_to_packet(GameAction_move_piece(m.index, m.end, m.captured, m.promoted)),
        promoted)

\* the board of the peer after wait_for_opponent applied what it received
PeerBoard(ps, m, promoted) ==
    LET got == Received(m, promoted)
    IN IF got.ok /\ got.value.kind = "MovePiece"
       THEN move_piece(Mirror(ps), reverse(got.value.mov))
       ELSE Mirror(ps)

\* a move the engine returned was applied to the local board in the step
EngineMoveApplied == legal.kind \in {"all", "piece"} /\ legal'.kind = "moved"

\* the mirrored board follows a move that reaches the peer as it was made
C35_MirrorOfMove ==
    [][EngineMoveApplied =>
          move_piece(Mirror(pieces), reverse(legal'.res.moves[1])) = Mirror(pieces')]_vars

\* C35: board agreement between peers. After a move is applied on the board of
\* the sender, sent as GameAction::MovePiece, decoded by the peer and applied
\* there as Move::reverse, the two boards are mirror images: square i of one
\* holds what square 31-i of the other holds, in activity, colour and king
\* status.
C35_BoardAgreement ==
    [][EngineMoveApplied =>
          \A promoted \in BOOLEAN :
             PeerBoard(pieces, legal'.res.moves[1], promoted) = Mirror(pieces')]_vars

\* a move was applied on the local board; the peer decodes it with index and
\* end exchanged and moves the empty square onto the piece
C35_Witness ==
    /\ legal.kind = "moved"
    /\ LET m == legal.res.moves[1]
           got == Received(m, m.promoted)
       IN /\ pieces[m.end].is_active
          /\ ~pieces[m.index].is_active
          /\ got.ok
          /\ got.value.mov.index = m.end
          /\ got.value.mov.end = m.index
          /\ ~move_piece(Mirror(pieces), reverse(got.value.mov))[31 - m.end].is_active

(***************************************************************************)
(* Claims about datagrams delivered twice, SpecTwice.                      *)
(***************************************************************************)
\* C36: a GameAction request that the transport delivers twice (same
\* transaction id) is placed in the inbound action queue of the receiver at
\* most once: the queue never holds more actions than requests were
\* transmitted.
C36_QueuedOnce == Len(host.incoming) <= sent_count

\* the client transmitted one request; the host received it twice and its
\* inbound queue holds the action twice
C36_Witness ==
    /\ sent_count = 1
    /\ Len(called) = 1
    /\ last_sent.item.data.packet = GameActionRequest(Surrender)
    /\ host.incoming = <<Surrender, Surrender>>

(***************************************************************************)
(* Claims about the status of the host, SpecEvict.                         *)
(***************************************************************************)
\* C37: on the host the connection status is Connected only while a peer
\* address is bound: after the bound peer is removed for inactivity,
\* is_connected() is false until a new Connect is accepted.
C37_ConnectedWhileBound == is_connected(status) => other_addr # NoAddr

\* the host removed its silent peer and still reports a connection
C37_Witness ==
    /\ evicted_at # -1
    /\ other_addr = NoAddr
    /\ session_id = CONNECT_SESSION_ID
    /\ is_connected(status)

(***************************************************************************)
(* SpecStray: the receive task of the client loop from start_lan_client    *)
(* on.  The task runs before send_join_request has set a peer address and  *)
(* keeps running after the ping task gave up and removed it; the socket is *)
(* bound to 0.0.0.0, so a datagram can arrive at any time.                 *)
(***************************************************************************)
\* the test of the sender's address at the top of the receive loop, for a
\* datagram that is not handed on: get_other_addr().await.unwrap() panics
\* without a peer address, a datagram of another sender is skipped
ClientRecvAddr(addr) ==
    /\ handled # Panicked
    /\ budget.recv > 0
    /\ IF other_addr = NoAddr
       THEN handled' = Panicked
       ELSE /\ addr # other_addr
            /\ handled' = Dropped
    /\ budget' = [budget EXCEPT !.recv = @ - 1]
    /\ UNCHANGED <<status_vars, table, outq, pushes, called, sent_count, last_sent,
                   last_pop, ping, app, timeouts, elapsed, peer_silent, evicted_at,
                   incoming, next_action, join_vars, board_vars, codec_vars>>

ClientRecvStray == \E addr \in Addrs : ClientRecvAddr(addr)

\* a datagram of the peer reaches the dispatch only while the task is alive
ClientRecvPeer == handled # Panicked /\ ClientRecv

\* start_lan_client has run, send_join_request has not
ClientStarted ==
    /\ NetIdleBut
    /\ budget = Budget(0, 0, MaxRecv, PingDraw)

InitStray ==
    /\ \/ ClientStarted
       \/ /\ Joined
          /\ budget = Budget(RECONNECT_TRIES + 2, 0, MaxRecv, PingDraw)
    /\ BoardIdle
    /\ CodecIdle

NextStray ==
    \/ PingTick \/ PingPushQueue \/ PingPushTable \/ PingWaitRead \/ PingWaitReturn
    \/ PingTimeout
    \/ SendIteration
    \/ ClientRecvPeer
    \/ ClientRecvStray

SpecStray == InitStray /\ [][NextStray]_vars

\* C38: the client receive task never fails on a datagram that arrives while
\* no peer address is set (before the first join request, or after the ping
\* task gave up and removed the address); it ignores the datagram and goes on.
C38_ReceiveSurvives == other_addr = NoAddr => handled # Panicked

\* the ping task has given up and removed the peer address, then a datagram
\* arrived
C38_Witness ==
    /\ status = Disconnected
    /\ other_addr = NoAddr
    /\ timeouts > RECONNECT_TRIES
    /\ handled = Panicked

(***************************************************************************)
(* Claims about the effect of Board::move_piece, SpecBoard.                *)
(***************************************************************************)
\* the squares in the captured list of a move
CapturedSquares(m) ==
    IF m.captured.some THEN {m.captured.list[k] : k \in 1 .. Len(m.captured.list)} ELSE {}

\* what the step of move_piece with move m did to the board: the frame, the
\* squares it emptied and the piece on the end square
MoveEffect(m) ==
    /\ \A i \in Squares \ ({m.index, m.end} \cup CapturedSquares(m)) :
          pieces'[i] = pieces[i]
    /\ ~pieces'[m.index].is_active
    /\ \A c \in CapturedSquares(m) : ~pieces'[c].is_active
    /\ pieces'[m.end].is_active = pieces[m.index].is_active
    /\ pieces'[m.end].color = pieces[m.index].color
    /\ pieces'[m.end].is_king = (pieces[m.index].is_king \/ m.promoted)

\* the end square of the move is neither its start square nor a captured square
Travels(m) == m.end # m.index /\ m.end \notin CapturedSquares(m)

\* the statement for every move that move_piece is given, the unvalidated
\* moves of the peer included
C39_EveryMove ==
    [][legal'.kind = "moved" => MoveEffect(legal'.res.moves[1])]_vars

\* C39: move_piece effect and frame. Applying a Move m whose end square is
\* neither m.index nor a captured square leaves every square other than
\* m.index, m.end and the captured squares unchanged; afterwards m.index and
\* every captured square are empty and m.end holds the piece that was on
\* m.index, with is_king equal to its previous is_king OR m.promoted and its
\* colour unchanged.
C39_MoveEffect ==
    [][legal'.kind = "moved" /\ Travels(legal'.res.moves[1])
          => MoveEffect(legal'.res.moves[1])]_vars

\* a capturing move with a promotion was applied: the start square and the
\* captured square are empty and the end square holds a king
C39_Witness ==
    /\ legal.kind = "moved"
    /\ Travels(Applied)
    /\ Applied.captured.some
    /\ Applied.promoted
    /\ ~pieces[Applied.index].is_active
    /\ \A c \in CapturedSquares(Applied) : ~pieces[c].is_active
    /\ pieces[Applied.end].is_active
    /\ pieces[Applied.end].is_king

(***************************************************************************)
(* Claims about the growth of the transaction table, SpecPing.             *)
(* new_transaction_id draws until it finds an identifier without an entry, *)
(* so it returns only while the table holds fewer entries than there are   *)
(* identifiers.                                                            *)
(***************************************************************************)
\* the requests that still await their response: the ping whose
\* wait_for_response is running, and the game actions whose callback waits
AwaitingResponse ==
    {id \in DOMAIN table :
        \/ ping.pc \in {"waiting", "got"} /\ ping.id = id
        \/ table[id].closure # NoClosure}

\* C40: new_transaction_id always terminates: the number of live table entries
\* stays bounded by the number of requests still awaiting a response; the
\* entries of timed-out pings are removed and do not accumulate.
C40_TableBounded == Cardinality(DOMAIN table) <= Cardinality(AwaitingResponse)

\* two pings have timed out and the ping task is back at its tick: both
\* entries are still in the table
C40_Witness ==
    /\ ping.pc = "idle"
    /\ timeouts >= 2
    /\ Cardinality(DOMAIN table) >= 2
    /\ AwaitingResponse = {}

====
